---- MODULE Spec2Model ----
(***************************************************************************)
(* A model of the kpt deployer of skaffold (pkg/skaffold/deploy/kpt.go):   *)
(* the hydration pipeline (renderManifests and its stages), the argument   *)
(* builders (kptCommandArgs, getKptFnRunArgs, ...), the apply-directory    *)
(* resolver (getApplyDir) and the Deploy / Render / Cleanup operations.    *)
(*                                                                         *)
(* Strings are sequences of symbols.  A symbol is a TLA+ string that       *)
(* stands for a run of characters holding none of the separators; the      *)
(* separators themselves are the symbols " ", "," and "/".  So the Go      *)
(* string "fn run" is <<"fn", " ", "run">> and ".pipeline/a" is            *)
(* <<".pipeline", "/", "a">>.  A list of strings ([]string) is a sequence  *)
(* of such sequences.                                                      *)
(***************************************************************************)
EXTENDS Integers, Sequences, FiniteSets, TLC

VARIABLES
    k,          \* the KptDeployer in use: its configuration (latest.KptDeploy)
    op,         \* the operation in progress: "none", "render", "deploy", "cleanup"
    pc,         \* the position inside the operation (the stage about to run)
    run,        \* number of operations started so far
    builds,     \* the build results handed to the operation
    fsDirs,     \* the directories that exist (paths relative to the working directory)
    fsFiles,    \* the files that exist (paths relative to the working directory)
    written,    \* the files the current operation and its subprocesses have written
    cmds,       \* external commands invoked by the current operation, in order
    stages,     \* stages of renderManifests entered by the current run, in order
    stream,     \* the bytes `kpt fn source` emitted (input of `kpt fn sink`)
    manifests,  \* the ManifestList flowing through the stages
    fnSaw,      \* the files under .pipeline when `kpt fn run` read it (current run)
    fnOut,      \* the documents `kpt fn run` wrote to its standard output (current run)
    renders,    \* render runs that the caller does not serialize:
                \* [pc, stream, wrote, fnSaw, alone, disturbed]
    rendered,   \* what renderManifests returned: [list, err]
    events,     \* non-fatal events surfaced by the current operation
    applyDir,   \* the directory getApplyDir resolved for the current operation
    namespaces, \* what CollectNamespaces returned to Deploy
    ret,        \* what the operation returned: [val, err]
    argIn,      \* inputs of the argument builders (pure-function specification)
    argOut,     \* their outputs
    ctx         \* the context of the operation: "live" or "cancelled"

vars == <<k, op, pc, run, builds, fsDirs, fsFiles, written, cmds, stages, stream,
          manifests, fnSaw, fnOut, renders, rendered, events, applyDir, namespaces, ret,
          argIn, argOut, ctx>>

pipeVars == <<k, op, pc, run, builds, fsDirs, fsFiles, written, cmds, stages, stream,
              manifests, fnSaw, fnOut, renders, rendered, events, applyDir, namespaces, ret, ctx>>

(***************************************************************************)
(* Bounds of the model.                                                    *)
(***************************************************************************)
MaxRuns == 2        \* operations that run the pipeline, per behaviour
MaxList == 2        \* longest commands / flags list handed to kptCommandArgs
MaxGlobal == 1      \* longest globalFlags list handed to kptCommandArgs
MaxMount == 2       \* longest Fn.Mount list
MaxDocs == 3        \* longest ManifestList handed to ExcludeKptFn on its own

(***************************************************************************)
(* Strings.                                                                *)
(***************************************************************************)
SP == " "
COMMA == ","
SLASH == "/"

Str(sym) == <<sym>>
EmptyStr == <<>>

\* index of the first occurrence of symbol sep in s, 0 when there is none
IndexOf(s, sep) ==
    IF \E i \in 1..Len(s) : s[i] = sep
    THEN CHOOSE i \in 1..Len(s) : s[i] = sep /\ \A j \in 1..(i-1) : s[j] # sep
    ELSE 0

RECURSIVE Split(_, _)
\* strings.Split(s, sep): "" gives [""], "a  b" gives ["a", "", "b"]
Split(s, sep) ==
    LET i == IndexOf(s, sep)
    IN  IF i = 0 THEN <<s>>
        ELSE <<SubSeq(s, 1, i - 1)>> \o Split(SubSeq(s, i + 1, Len(s)), sep)

RECURSIVE Join(_, _)
\* strings.Join(list, sep)
Join(list, sep) ==
    IF Len(list) = 0 THEN EmptyStr
    ELSE IF Len(list) = 1 THEN list[1]
    ELSE list[1] \o <<sep>> \o Join(Tail(list), sep)

(***************************************************************************)
(* Errors.  A Go error is a string naming the wrapping message of the      *)
(* place that produced it; NoErr is the nil error.  Where one wrapping      *)
(* message covers two commands (readConfigs), the string also holds the    *)
(* text of the command runner's error, which names the command.            *)
(***************************************************************************)
NoErr == "nil"

(***************************************************************************)
(* Argument builders.                                                      *)
(***************************************************************************)
RECURSIVE SplitEach(_)
\* the loop of kptCommandArgs over one list: every element split on spaces
SplitEach(list) ==
    IF Len(list) = 0 THEN <<>>
    ELSE Split(Head(list), SP) \o SplitEach(Tail(list))

\* a mutant of kptCommandArgs: the directory is split on spaces like the rest
kptCommandArgsSplitDir(dir, commands, flags, globalFlags) ==
    SplitEach(commands)
        \o (IF Len(dir) > 0 THEN Split(dir, SP) ELSE <<>>)
        \o SplitEach(flags)
        \o SplitEach(globalFlags)

kptCommandArgs(dir, commands, flags, globalFlags) ==
    SplitEach(commands)
        \o (IF Len(dir) > 0 THEN <<dir>> ELSE <<>>)
        \o SplitEach(flags)
        \o SplitEach(globalFlags)

\* a mutant of getKptFnRunArgs: the count of fn-path and image is not checked
getKptFnRunArgsNoCheck(fn) ==
    [flags |-> <<Str("--dry-run")>>
                 \o (IF Len(fn.FnPath) > 0 THEN <<Str("--fn-path"), fn.FnPath>> ELSE <<>>)
                 \o (IF Len(fn.Image) > 0 THEN <<Str("--image"), fn.Image>> ELSE <<>>),
     err |-> NoErr]

\* a mutant of getKptFnRunArgs: one option set is already one too many
getKptFnRunArgsStrict(fn) ==
    IF Len(fn.FnPath) > 0 \/ Len(fn.Image) > 0
    THEN [flags |-> <<>>, err |-> "only one of fn-path or image may be specified"]
    ELSE [flags |-> <<Str("--dry-run")>>, err |-> NoErr]

\* a mutant of getKptFnRunArgs: --network is appended before --mount
getKptFnRunArgsSwapped(fn) ==
    LET f0 == <<Str("--dry-run")>>
        f1 == IF fn.GlobalScope THEN f0 \o <<Str("--global-scope")>> ELSE f0
        f2 == IF fn.Network THEN f1 \o <<Str("--network")>> ELSE f1
        f3 == IF Len(fn.Mount) > 0
              THEN f2 \o <<Str("--mount"), Join(fn.Mount, COMMA)>> ELSE f2
        f4 == IF Len(fn.NetworkName) > 0
              THEN f3 \o <<Str("--network-name"), fn.NetworkName>> ELSE f3
        f5 == IF Len(fn.FnPath) > 0
              THEN f4 \o <<Str("--fn-path"), fn.FnPath>> ELSE f4
        f6 == IF Len(fn.Image) > 0
              THEN f5 \o <<Str("--image"), fn.Image>> ELSE f5
    IN  IF Len(fn.FnPath) > 0 /\ Len(fn.Image) > 0
        THEN [flags |-> <<>>, err |-> "only one of fn-path or image may be specified"]
        ELSE [flags |-> f6, err |-> NoErr]

\* getKptFnRunArgs: the flags of `kpt fn run`, or an error when both
\* fn-path and image are set.  fn is latest.KptFn.
getKptFnRunArgs(fn) ==
    LET f0 == <<Str("--dry-run")>>
        f1 == IF fn.GlobalScope THEN f0 \o <<Str("--global-scope")>> ELSE f0
        f2 == IF Len(fn.Mount) > 0
              THEN f1 \o <<Str("--mount"), Join(fn.Mount, COMMA)>> ELSE f1
        f3 == IF fn.Network THEN f2 \o <<Str("--network")>> ELSE f2
        f4 == IF Len(fn.NetworkName) > 0
              THEN f3 \o <<Str("--network-name"), fn.NetworkName>> ELSE f3
        f5 == IF Len(fn.FnPath) > 0
              THEN f4 \o <<Str("--fn-path"), fn.FnPath>> ELSE f4
        f6 == IF Len(fn.Image) > 0
              THEN f5 \o <<Str("--image"), fn.Image>> ELSE f5
        count == (IF Len(fn.FnPath) > 0 THEN 1 ELSE 0)
                 + (IF Len(fn.Image) > 0 THEN 1 ELSE 0)
    IN  IF count > 1
        THEN [flags |-> <<>>, err |-> "only one of fn-path or image may be specified"]
        ELSE [flags |-> f6, err |-> NoErr]

\* a mutant of getKptLiveApplyArgs: --prune-timeout is appended before
\* --prune-propagation-policy
getKptLiveApplyArgsSwapped(o) ==
    LET f1 == IF Len(o.PollPeriod) > 0
              THEN <<Str("--poll-period"), o.PollPeriod>> ELSE <<>>
        f2 == IF Len(o.PruneTimeout) > 0
              THEN f1 \o <<Str("--prune-timeout"), o.PruneTimeout>> ELSE f1
        f3 == IF Len(o.PrunePropagationPolicy) > 0
              THEN f2 \o <<Str("--prune-propagation-policy"), o.PrunePropagationPolicy>>
              ELSE f2
        f4 == IF Len(o.ReconcileTimeout) > 0
              THEN f3 \o <<Str("--reconcile-timeout"), o.ReconcileTimeout>> ELSE f3
    IN  f4

\* getKptLiveApplyArgs: the flags of `kpt live apply`.  o is latest.KptApplyOptions.
getKptLiveApplyArgs(o) ==
    LET f1 == IF Len(o.PollPeriod) > 0
              THEN <<Str("--poll-period"), o.PollPeriod>> ELSE <<>>
        f2 == IF Len(o.PrunePropagationPolicy) > 0
              THEN f1 \o <<Str("--prune-propagation-policy"), o.PrunePropagationPolicy>>
              ELSE f1
        f3 == IF Len(o.PruneTimeout) > 0
              THEN f2 \o <<Str("--prune-timeout"), o.PruneTimeout>> ELSE f2
        f4 == IF Len(o.ReconcileTimeout) > 0
              THEN f3 \o <<Str("--reconcile-timeout"), o.ReconcileTimeout>> ELSE f3
    IN  f4

\* getKptLiveInitArgs: the flags of `kpt live init`.  a is latest.KptApplyInventory.
getKptLiveInitArgs(a) ==
    LET f1 == IF Len(a.InventoryID) > 0
              THEN <<Str("--inventory-id"), a.InventoryID>> ELSE <<>>
        f2 == IF Len(a.InventoryNamespace) > 0
              THEN f1 \o <<Str("--namespace"), a.InventoryNamespace>> ELSE f1
    IN  f2

\* exec.CommandContext(ctx, name, args...): the command line of a subprocess
Command(name, args) == [name |-> name, args |-> args]

(***************************************************************************)
(* Paths (path/filepath), relative to the working directory.               *)
(***************************************************************************)
RECURSIVE CleanComps(_, _)
\* the lexical processing of filepath.Clean on the components of a relative
\* path: "" and "." are dropped, ".." removes the component before it
CleanComps(comps, acc) ==
    IF Len(comps) = 0 THEN acc
    ELSE LET c == Head(comps)
         IN  IF c = EmptyStr \/ c = Str(".")
             THEN CleanComps(Tail(comps), acc)
             ELSE IF c = Str("..") /\ Len(acc) > 0 /\ acc[Len(acc)] # Str("..")
             THEN CleanComps(Tail(comps), SubSeq(acc, 1, Len(acc) - 1))
             ELSE CleanComps(Tail(comps), Append(acc, c))

Comps(p) == CleanComps(Split(p, SLASH), <<>>)

Clean(p) == IF Len(Comps(p)) = 0 THEN Str(".") ELSE Join(Comps(p), SLASH)

\* filepath.Join(a, b): empty elements are ignored, the result is cleaned
PathJoin(a, b) ==
    IF Len(a) = 0 /\ Len(b) = 0 THEN EmptyStr
    ELSE IF Len(a) = 0 THEN Clean(b)
    ELSE IF Len(b) = 0 THEN Clean(a)
    ELSE Clean(a \o <<SLASH>> \o b)

\* p is q or lies under q
Under(p, q) ==
    LET cp == Comps(p)
        cq == Comps(q)
    IN  Len(cq) <= Len(cp) /\ SubSeq(cp, 1, Len(cq)) = cq

\* the constants of kpt.go
inventoryTemplate == Str("inventory-template.yaml")
kptHydrated == Str(".kpt-hydrated")
pipeline == Str(".pipeline")
kptFnAnnotation == "config.kubernetes.io/function"
kptFnLocalConfig == "config.kubernetes.io/local-config"

\* a mutant of RemoveAllFiles: the directory is emptied of nothing
RemoveAllFilesKeep(files, p) == files

\* os.RemoveAll(p) on the directories / on the files
RemoveAllDirs(dirs, p) == {d \in dirs : ~Under(d, p)}
RemoveAllFiles(files, p) == {f \in files : ~Under(f, p)}

\* os.MkdirAll(p): p and every missing parent
MkdirAll(dirs, p) ==
    dirs \cup {Join(SubSeq(Comps(p), 1, i), SLASH) : i \in 1..Len(Comps(p))}

\* a mutant of Exists: os.Stat never reports a missing path
ExistsAlways(dirs, files, p) == TRUE

\* a mutant of Exists: os.Stat reports every path missing
ExistsNever(dirs, files, p) == FALSE

\* os.Stat(p) succeeds
Exists(dirs, files, p) ==
    \/ Clean(p) \in dirs
    \/ Clean(p) \in files

(***************************************************************************)
(* Manifest documents.  A document is what one element of a ManifestList   *)
(* holds: id names the resource, bad says the bytes do not unmarshal into  *)
(* an object, anns is metadata.annotations, ns is metadata.namespace ("" = *)
(* none), image is the container image reference, labels is                *)
(* metadata.labels, and raw says the bytes are still those the function    *)
(* engine emitted (FALSE once the document was marshalled again).          *)
(***************************************************************************)
NoMap == [x \in {} |-> ""]

pod == [id |-> "pod", bad |-> FALSE, anns |-> NoMap, ns |-> "default",
        image |-> "image1", labels |-> NoMap, raw |-> TRUE]
fnDoc == [id |-> "fn", bad |-> FALSE, anns |-> (kptFnAnnotation :> "cfg"), ns |-> "",
          image |-> "fnimage", labels |-> NoMap, raw |-> TRUE]
fnDocLocal == [id |-> "fnlocal", bad |-> FALSE,
               anns |-> ((kptFnAnnotation :> "cfg") @@ (kptFnLocalConfig :> "false")),
               ns |-> "", image |-> "fnimage", labels |-> NoMap, raw |-> TRUE]
badDoc == [id |-> "foo", bad |-> TRUE, anns |-> NoMap, ns |-> "",
           image |-> "", labels |-> NoMap, raw |-> TRUE]
\* a resource that has annotations, none of them the function marker
annDoc == [id |-> "svc", bad |-> FALSE, anns |-> ("note" :> "n1"), ns |-> "default",
           image |-> "", labels |-> NoMap, raw |-> TRUE]
\* a declarative fn that carries one more annotation
fnDocNote == [id |-> "fnnote", bad |-> FALSE,
              anns |-> ((kptFnAnnotation :> "cfg") @@ ("note" :> "n1")),
              ns |-> "", image |-> "fnimage", labels |-> NoMap, raw |-> TRUE]

\* what `kpt fn run --dry-run` may write to its standard output
FnOutputs == {<<>>, <<fnDoc, pod>>, <<fnDocLocal, badDoc>>}

\* what `kpt fn source <dir>` may emit: the manifests of the directory, each
\* with its path relative to the directory
Streams == {<<>>, <<Str("m1.yaml"), Str("m2.yaml")>>}

\* the build results a caller may supply
BuildSets == {<<>>, <<[ImageName |-> "image1", Tag |-> "image1:tag1"]>>}

\* the labels a deployer may be built with
LabelSets == {NoMap, ("user/label" :> "test")}

(***************************************************************************)
(* The configuration of a deployer (latest.KptDeploy and the labels).      *)
(***************************************************************************)
NoFnOptions(fnPath, image) ==
    [FnPath |-> fnPath, Image |-> image, GlobalScope |-> FALSE, Mount |-> <<>>,
     Network |-> FALSE, NetworkName |-> EmptyStr]

NoLiveOptions == [PollPeriod |-> EmptyStr, PrunePropagationPolicy |-> EmptyStr,
                  PruneTimeout |-> EmptyStr, ReconcileTimeout |-> EmptyStr]

Dirs == {Str("."), Str("a"), Str("b")}
FnPaths == {EmptyStr, Str("kpt-func.yaml")}
FnImages == {EmptyStr, <<"my-fn:v1", SP, "--", SP, "foo=bar">>}
ApplyDirs == {EmptyStr, Str("apply")}

Config(d, fp, im, ad, l) ==
    [Dir |-> d,
     Fn |-> NoFnOptions(fp, im),
     Live |-> [Apply |-> [Dir |-> ad, InventoryID |-> EmptyStr,
                          InventoryNamespace |-> EmptyStr],
               Options |-> NoLiveOptions],
     labels |-> l]

\* the deployers of the model: a plain one, and deployers that differ from it
\* in the configuration directory, in the function options, in the apply
\* directory, in the labels, or in all of them
BaseConfig == Config(Str("."), EmptyStr, EmptyStr, EmptyStr, NoMap)
Configs ==
    {BaseConfig}
        \cup {Config(d, EmptyStr, EmptyStr, EmptyStr, NoMap) : d \in Dirs}
        \cup {Config(Str("."), fp, im, EmptyStr, NoMap) : fp \in FnPaths, im \in FnImages}
        \cup {Config(Str("."), EmptyStr, EmptyStr, ad, NoMap) : ad \in ApplyDirs}
        \cup {Config(Str("."), EmptyStr, EmptyStr, EmptyStr, l) : l \in LabelSets}
        \cup {Config(Str("a"), Str("kpt-func.yaml"), EmptyStr, Str("apply"),
                     ("user/label" :> "test"))}

\* the kustomization config a project may hold directly under directory a,
\* declaring m1.yaml as its input
KustomizationFile == PathJoin(Str("a"), Str("kustomization.yaml"))

(***************************************************************************)
(* Manifest list operations.                                               *)
(***************************************************************************)
\* a mutant of IsKptFnConfig: every resource is taken for a kpt fn config
IsKptFnConfigAlways(d) == TRUE

\* _, ok := obj.GetAnnotations()[kptFnAnnotation]
IsKptFnConfig(d) == kptFnAnnotation \in DOMAIN d.anns

\* a mutant of HasLocalConfig: the annotation is never seen
HasLocalConfigNever(d) == FALSE

\* _, ok := obj.GetAnnotations()[kptFnLocalConfig]
HasLocalConfig(d) == kptFnLocalConfig \in DOMAIN d.anns

\* anns[kptFnLocalConfig] = "true", and the object is serialized again: the
\* bytes of the document are no longer the ones that came in
AddLocalConfig(d) ==
    [d EXCEPT !.anns = (kptFnLocalConfig :> "true") @@ d.anns, !.raw = FALSE]

\* a mutant of UnmarshalFailure: the documents done so far are returned
UnmarshalFailureSoFar(acc) == acc

\* return nil, fmt.Errorf("unmarshaling config: %w", err): the documents in
\* newManifest are not returned
UnmarshalFailure(acc) == <<>>

RECURSIVE ExcludeLoop(_, _)
\* the loop of ExcludeKptFn over the documents still to do, acc = newManifest
ExcludeLoop(list, acc) ==
    IF Len(list) = 0 THEN [list |-> acc, err |-> NoErr]
    ELSE LET d == Head(list)
         IN  IF d.bad
             THEN [list |-> UnmarshalFailure(acc), err |-> "unmarshaling config"]
             ELSE IF ~IsKptFnConfig(d)
             THEN ExcludeLoop(Tail(list), Append(acc, d))
             ELSE IF HasLocalConfig(d)
             THEN ExcludeLoop(Tail(list), Append(acc, d))
             ELSE ExcludeLoop(Tail(list), Append(acc, AddLocalConfig(d)))

\* a mutant of ExcludeKptFn: the documents are appended to the list that came in
ExcludeKptFnAppend(manifest) == ExcludeLoop(manifest, manifest)

ExcludeKptFn(manifest) == ExcludeLoop(manifest, <<>>)

\* ReplaceImages on one document
ReplaceImage(d, bs) ==
    IF \E j \in 1..Len(bs) : bs[j].ImageName = d.image
    THEN [d EXCEPT
            !.image = bs[CHOOSE j \in 1..Len(bs) : bs[j].ImageName = d.image].Tag,
            !.raw = FALSE]
    ELSE d

RECURSIVE ReplaceImages(_, _)
\* ManifestList.ReplaceImages(builds): an image reference named by a build
\* result becomes that build's tag, every other one is left alone
ReplaceImages(list, bs) ==
    IF Len(list) = 0 THEN <<>>
    ELSE <<ReplaceImage(Head(list), bs)>> \o ReplaceImages(Tail(list), bs)

RECURSIVE SetLabels(_, _)
\* ManifestList.SetLabels(labels): the labels are merged into metadata.labels
\* of every document, overwriting keys that are there
SetLabels(list, labels) ==
    IF Len(list) = 0 \/ DOMAIN labels = {} THEN list
    ELSE <<[Head(list) EXCEPT !.labels = labels @@ Head(list).labels, !.raw = FALSE]>>
            \o SetLabels(Tail(list), labels)

\* ManifestList.CollectNamespaces(): the distinct namespaces of the documents
CollectNamespaces(list) ==
    {list[i].ns : i \in {j \in 1..Len(list) : list[j].ns # ""}}

\* findKustomizationConfig(dir): a kustomization config lies directly under dir
FindKustomizationConfig(files, dir) ==
    PathJoin(dir, Str("kustomization.yaml")) \in files

\* dependenciesForKustomization(dir): the config and the inputs it declares
DependenciesForKustomization(files, dir) ==
    IF FindKustomizationConfig(files, dir)
    THEN <<PathJoin(dir, Str("kustomization.yaml")), PathJoin(dir, Str("m1.yaml"))>>
    ELSE <<>>

\* buildCommandArgs(buildArgs, kustomizePath): the arguments of `kustomize build`
BuildCommandArgs(buildArgs, kustomizePath) ==
    <<Str("build")>> \o buildArgs
        \o (IF Len(kustomizePath) > 0 THEN <<kustomizePath>> ELSE <<>>)

\* a mutant of RenderFail: the documents in hand are returned with the error
RenderFailPartial(e, m) == [list |-> m, err |-> e]

\* what renderManifests returns when a stage fails with error e while the
\* manifest list is m: return nil, fmt.Errorf(...)
RenderFail(e, m) == [list |-> <<>>, err |-> e]

\* the working-state subtree of a deployer: filepath.Join(pipeline, k.Dir)
WorkDir(cfg) == PathJoin(pipeline, cfg.Dir)

\* a mutant of RemoveEach: the dry configs stay in .pipeline
RemoveEachNone(deps, dirs, files) == [dirs |-> dirs, files |-> files]

RECURSIVE RemoveEach(_, _, _)
\* the loop of kustomizeBuild removing the dry configs from .pipeline;
\* fs = [dirs, files]
RemoveEach(deps, dirs, files) ==
    IF Len(deps) = 0 THEN [dirs |-> dirs, files |-> files]
    ELSE RemoveEach(Tail(deps),
                    RemoveAllDirs(dirs, PathJoin(pipeline, Head(deps))),
                    RemoveAllFiles(files, PathJoin(pipeline, Head(deps))))

(***************************************************************************)
(* Dependencies and getResources.  Names are compared and matched on their *)
(* characters: a path is flattened to the string it stands for.            *)
(***************************************************************************)
\* the characters of the model's names, in byte order
AsciiOrder == " -./0123456789ABCDEFGHIJKLMNOPQRSTUVWXYZ_abcdefghijklmnopqrstuvwxyz"

AsciiChars == [i \in 1..Len(AsciiOrder) |-> SubSeq(AsciiOrder, i, i)]

Ord(c) == CHOOSE i \in 1..Len(AsciiOrder) : AsciiChars[i] = c

RECURSIVE Flat(_)
\* the string a sequence of symbols stands for
Flat(p) == IF Len(p) = 0 THEN "" ELSE p[1] \o Flat(Tail(p))

RECURSIVE StrLess(_, _)
\* s < t for Go strings: byte-wise lexicographic order
StrLess(s, t) ==
    IF Len(t) = 0 THEN FALSE
    ELSE IF Len(s) = 0 THEN TRUE
    ELSE IF SubSeq(s, 1, 1) = SubSeq(t, 1, 1)
    THEN StrLess(SubSeq(s, 2, Len(s)), SubSeq(t, 2, Len(t)))
    ELSE Ord(SubSeq(s, 1, 1)) < Ord(SubSeq(t, 1, 1))

\* the first position at which two paths have different symbols
FirstDiff(p, q) ==
    LET n == IF Len(p) < Len(q) THEN Len(p) ELSE Len(q)
    IN  CHOOSE i \in 1..(n + 1) :
          /\ i = n + 1 \/ p[i] # q[i]
          /\ \A j \in 1..(i - 1) : p[j] = q[j]

\* p < q as strings; what the two have in common at the front is skipped
PathLess(p, q) ==
    LET i == FirstDiff(p, q)
    IN  StrLess(Flat(SubSeq(p, i, Len(p))), Flat(SubSeq(q, i, Len(q))))

RECURSIVE InsertSorted(_, _)
\* list, which is sorted, with path x put at its place
InsertSorted(x, list) ==
    IF Len(list) = 0 THEN <<x>>
    ELSE IF PathLess(x, Head(list)) THEN <<x>> \o list
    ELSE <<Head(list)>> \o InsertSorted(x, Tail(list))

RECURSIVE SortPaths(_)
\* sort.Strings on a set of paths
SortPaths(S) ==
    IF S = {} THEN <<>>
    ELSE LET x == CHOOSE y \in S : TRUE
         IN  InsertSorted(x, SortPaths(S \ {x}))

\* strings.HasSuffix
HasSuffix(s, suf) ==
    Len(s) >= Len(suf) /\ SubSeq(s, Len(s) - Len(suf) + 1, Len(s)) = suf

\* filepath.Base of a clean path, as a string
Base(p) == p[Len(p)]

\* filepath.Dir of a clean path
Parent(p) == IF Len(p) <= 2 THEN Str(".") ELSE SubSeq(p, 1, Len(p) - 2)

\* a mutant of IsResource: every name is taken for a resource
IsResourceAny(name) == TRUE

\* regexp.MatchString(`\.ya?ml$`, name)
IsResource(name) == HasSuffix(name, ".yaml") \/ HasSuffix(name, ".yml")

\* the entries of directory d
Children(dirs, files, d) == {e \in (dirs \cup files) \ {d} : Parent(e) = d}

RECURSIVE Walk(_, _, _)
RECURSIVE WalkEach(_, _, _)
\* filepath.Walk(path, fn) with the function of getResources: path is
\* visited, then the entries of a directory in lexical order; a path is
\* appended when it is no directory and its base name is a resource name
Walk(path, dirs, files) ==
    (IF path \notin dirs /\ IsResource(Base(path)) THEN <<path>> ELSE <<>>)
        \o (IF path \in dirs
            THEN WalkEach(SortPaths(Children(dirs, files, path)), dirs, files)
            ELSE <<>>)

WalkEach(list, dirs, files) ==
    IF Len(list) = 0 THEN <<>>
    ELSE Walk(Head(list), dirs, files) \o WalkEach(Tail(list), dirs, files)

\* a mutant of getResources: a missing root is walked like an empty one
getResourcesNoStat(root, dirs, files) ==
    [list |-> Walk(Clean(root), dirs, files), err |-> NoErr]

\* getResources(root): the error of os.Stat when root does not exist,
\* otherwise the files the walk collected
getResources(root, dirs, files) ==
    IF ~Exists(dirs, files, root)
    THEN [list |-> <<>>, err |-> "no such file or directory"]
    ELSE [list |-> Walk(Clean(root), dirs, files), err |-> NoErr]

\* stringSet.insert(strings...)
Insert(set, list) == set \cup {list[i] : i \in 1..Len(list)}

\* stringSet.toList(): the elements, sorted
ToList(set) == SortPaths(set)

\* a mutant of Dependencies: the paths are returned as they were found
DependenciesAppend(cfg, dirs, files, kOk) ==
    [val |-> (IF Len(cfg.Fn.FnPath) > 0 THEN <<cfg.Fn.FnPath>> ELSE <<>>)
                \o getResources(cfg.Dir, dirs, files).list
                \o DependenciesForKustomization(files, cfg.Dir),
     err |-> getResources(cfg.Dir, dirs, files).err]

\* k.Dependencies(); kOk says dependenciesForKustomization returned no error
Dependencies(cfg, dirs, files, kOk) ==
    LET fnDeps == IF Len(cfg.Fn.FnPath) > 0 THEN Insert({}, <<cfg.Fn.FnPath>>) ELSE {}
        configDeps == getResources(cfg.Dir, dirs, files)
    IN  IF configDeps.err # NoErr
        THEN [val |-> <<>>, err |-> "finding dependencies"]
        ELSE IF ~kOk
        THEN [val |-> <<>>, err |-> "finding kustomization"]
        ELSE [val |-> ToList(Insert(Insert(fnDeps, configDeps.list),
                                    DependenciesForKustomization(files, cfg.Dir))),
              err |-> NoErr]

\* a mutant of Recompute: a result once computed is returned again
RecomputeCached(prev, fresh) == IF prev.err = NoErr THEN prev ELSE fresh

\* Dependencies starts from newStringSet() on every call: what an earlier
\* call returned (prev) has no part in the result
Recompute(prev, fresh) == fresh

(***************************************************************************)
(* The state after construction: a project directory with the directories  *)
(* a and b, possibly a kustomization config under a, possibly the explicit *)
(* apply directory, and a deployer built by NewKptDeployer.                *)
(***************************************************************************)
NoRet == [val |-> <<>>, err |-> "none"]
NoRendered == [list |-> <<>>, err |-> "none"]
NoArgs == [fn |-> "none"]
NoOut == [done |-> FALSE, args |-> <<>>, err |-> NoErr]

\* the render runs of the caller that does not serialize them: none is started
RenderIds == {1, 2}
NoRender == [pc |-> "idle", stream |-> <<>>, wrote |-> {}, fnSaw |-> {}, alone |-> TRUE,
             disturbed |-> FALSE]
NoRenders == [r \in RenderIds |-> NoRender]

Init ==
    /\ k \in Configs
    /\ op = "none"
    /\ pc = "idle"
    /\ run = 0
    /\ builds = <<>>
    /\ \E withApply \in BOOLEAN, withInventory \in BOOLEAN, withKustomization \in BOOLEAN :
         /\ withInventory => withApply
         /\ fsDirs = {Str("."), Str("a"), Str("b")}
                       \cup (IF withApply THEN {Str("apply")} ELSE {})
         /\ fsFiles = (IF withKustomization THEN {KustomizationFile} ELSE {})
                       \cup (IF withInventory
                             THEN {PathJoin(Str("apply"), inventoryTemplate)} ELSE {})
    /\ written = {}
    /\ cmds = <<>>
    /\ stages = <<>>
    /\ stream = <<>>
    /\ manifests = <<>>
    /\ fnSaw = {}
    /\ fnOut = <<>>
    /\ renders = NoRenders
    /\ rendered = NoRendered
    /\ events = <<>>
    /\ applyDir = EmptyStr
    /\ namespaces = {}
    /\ ret = NoRet
    /\ argIn = NoArgs
    /\ argOut = NoOut
    /\ ctx = "live"

(***************************************************************************)
(* Calls.  An operation starts when none is in progress.                   *)
(***************************************************************************)
CanCall == pc \in {"idle", "returned"} /\ run < MaxRuns

\* what every call sets up
Begin(o) ==
    /\ op' = o
    /\ run' = run + 1
    /\ builds' = <<>>
    /\ written' = {}
    /\ cmds' = <<>>
    /\ stages' = <<>>
    /\ stream' = <<>>
    /\ manifests' = <<>>
    /\ fnSaw' = {}
    /\ fnOut' = <<>>
    /\ renders' = renders
    /\ rendered' = NoRendered
    /\ events' = <<>>
    /\ applyDir' = EmptyStr
    /\ namespaces' = {}
    /\ ret' = NoRet
    /\ ctx' = "live"

\* the record of an operation, when none has been called on the deployer
NoOperation ==
    /\ op' = "none"
    /\ pc' = "idle"
    /\ builds' = <<>>
    /\ written' = {}
    /\ cmds' = <<>>
    /\ stages' = <<>>
    /\ stream' = <<>>
    /\ manifests' = <<>>
    /\ fnSaw' = {}
    /\ fnOut' = <<>>
    /\ renders' = renders
    /\ rendered' = NoRendered
    /\ events' = <<>>
    /\ applyDir' = EmptyStr
    /\ namespaces' = {}
    /\ ret' = NoRet
    /\ ctx' = "live"

\* NewKptDeployer(ctx, labels): a deployer with another configuration is
\* built in the same project directory
NewKptDeployer ==
    /\ pc = "returned"
    /\ run < MaxRuns
    /\ \E c \in Configs : c # k /\ k' = c
    /\ NoOperation
    /\ UNCHANGED <<run, fsDirs, fsFiles, argIn, argOut>>

\* Render(ctx, out, builds, _, filepath) is called
CallRender ==
    /\ CanCall
    /\ Begin("render")
    /\ pc' = "registry"
    /\ UNCHANGED <<k, fsDirs, fsFiles, argIn, argOut>>

\* Deploy(ctx, out, builds) is called
CallDeploy ==
    /\ CanCall
    /\ Begin("deploy")
    /\ pc' = "registry"
    /\ UNCHANGED <<k, fsDirs, fsFiles, argIn, argOut>>

\* Cleanup(ctx, out) is called
CallCleanup ==
    /\ CanCall
    /\ Begin("cleanup")
    /\ pc' = "applydir"
    /\ UNCHANGED <<k, fsDirs, fsFiles, argIn, argOut>>

\* k.Dependencies() is called: the whole call is one step.  It reads the
\* file system and runs nothing, and is not counted in run.
CallDependencies ==
    /\ pc \in {"idle", "returned"}
    /\ op' = "dependencies"
    /\ pc' = "returned"
    /\ run' = run
    /\ \E kOk \in BOOLEAN :
         /\ (~kOk) => FindKustomizationConfig(fsFiles, k.Dir)
         /\ ret' = Recompute(IF op = "dependencies" THEN ret ELSE NoRet,
                             Dependencies(k, fsDirs, fsFiles, kOk))
    /\ builds' = <<>>
    /\ written' = {}
    /\ cmds' = <<>>
    /\ stages' = <<>>
    /\ stream' = <<>>
    /\ manifests' = <<>>
    /\ fnSaw' = {}
    /\ fnOut' = <<>>
    /\ renders' = renders
    /\ rendered' = NoRendered
    /\ events' = <<>>
    /\ applyDir' = EmptyStr
    /\ namespaces' = {}
    /\ ctx' = "live"
    /\ UNCHANGED <<k, fsDirs, fsFiles, argIn, argOut>>

(***************************************************************************)
(* renderManifests, stage by stage.  A subprocess is run with              *)
(* util.RunCmdOut, which returns when the process has exited: the          *)
(* invocation, its effect and its result are one step.                     *)
(***************************************************************************)
InRender == op \in {"render", "deploy"}

\* a mutant of CanStart: a command is started whatever the context says
CanStartAlways(c) == TRUE

\* exec.CommandContext(ctx, ...): a command is not started once ctx is done
CanStart(c) == c = "live"

\* how running a command with util.RunCmdOut / util.RunCmd may end: the
\* process exits with status 0 ("ok"), it exits with an error ("error"), it
\* is killed because ctx was cancelled while it ran ("killed"); or it is not
\* started at all because ctx was done already ("refused")
RunResults(c) == IF CanStart(c) THEN {"ok", "error", "killed"} ELSE {"refused"}

\* running command c ended with res
Run(c, res) ==
    /\ cmds' = IF res = "refused" THEN cmds ELSE Append(cmds, c)
    /\ ctx' = IF res = "killed" THEN "cancelled" ELSE ctx

\* where the operation is about to run a command, or to end the pipeline
CancelPoints == {"source", "sink", "template", "fnrun", "rendered", "applydir", "apply",
                 "destroy"}

\* the ambient cancellation signal fires while no command is running.  The
\* code reads ctx only when it starts a command, so a signal that fires
\* earlier is the same as one that fires just before the next command or,
\* when there is none, at the end of the pipeline.
Cancel ==
    /\ pc \in CancelPoints
    /\ ctx = "live"
    /\ ctx' = "cancelled"
    /\ UNCHANGED <<k, op, pc, run, builds, fsDirs, fsFiles, written, cmds, stages, stream,
                   manifests, fnSaw, fnOut, renders, rendered, events, applyDir, namespaces, ret,
                   argIn, argOut>>
Enter(st) == stages' = Append(stages, st)

\* a mutant of Abort: the failed stage is run again
AbortRetry(e) == UNCHANGED <<pc, rendered>>

\* renderManifests returns an error
Abort(e) ==
    /\ pc' = "rendered"
    /\ rendered' = RenderFail(e, manifests)

\* config.GetDebugHelpersRegistry(k.globalConfig)
GetDebugHelpersRegistry ==
    /\ InRender /\ pc = "registry"
    /\ \E ok \in BOOLEAN :
         IF ok THEN pc' = "reset" /\ UNCHANGED rendered
         ELSE Abort("retrieving debug helpers registry")
    /\ UNCHANGED <<k, op, run, written, builds, fsDirs, fsFiles, cmds, stages, stream,
                   manifests, fnSaw, fnOut, renders, events, applyDir, namespaces, ret, argIn, argOut, ctx>>

\* os.RemoveAll and os.MkdirAll of the working-state subtree
Reset ==
    /\ InRender /\ pc = "reset"
    /\ Enter("reset")
    /\ \E rmOk \in BOOLEAN, mkOk \in BOOLEAN :
         IF ~rmOk
         THEN /\ Abort("deleting temporary directory")
              /\ UNCHANGED <<fsDirs, fsFiles>>
         ELSE /\ fsFiles' = RemoveAllFiles(fsFiles, WorkDir(k))
              /\ IF ~mkOk
                 THEN /\ Abort("creating temporary directory")
                      /\ fsDirs' = RemoveAllDirs(fsDirs, WorkDir(k))
                 ELSE /\ pc' = "source"
                      /\ fsDirs' = MkdirAll(RemoveAllDirs(fsDirs, WorkDir(k)), WorkDir(k))
                      /\ UNCHANGED rendered
    /\ UNCHANGED <<k, op, run, written, builds, cmds, stream, manifests, fnSaw, fnOut, renders, events,
                   applyDir, namespaces, ret, argIn, argOut, ctx>>

\* the error util.RunCmdOut returns for a command that did not run to a
\* successful end: it names the command
RunCmdOutError(c) == c.name \o " " \o c.args[1][1] \o " " \o c.args[2][1]

\* fmt.Errorf(msg + ": %w", e)
Wrap(msg, e) == msg \o ": " \o e

\* readConfigs, first half: `kpt fn source <Dir>`.  readConfigs returns the
\* error of the command as it is, and renderManifests wraps it.
Source ==
    /\ InRender /\ pc = "source"
    /\ Enter("source")
    /\ \E res \in RunResults(ctx) :
         LET c == Command("kpt", kptCommandArgs(k.Dir, <<Str("fn"), Str("source")>>, <<>>, <<>>))
         IN  /\ Run(c, res)
             /\ IF res = "ok"
                THEN /\ \E s \in Streams : stream' = s
                     /\ pc' = "sink"
                     /\ UNCHANGED rendered
                ELSE /\ Abort(Wrap("reading config manifests", RunCmdOutError(c)))
                     /\ UNCHANGED stream
    /\ UNCHANGED <<k, op, run, written, builds, fsDirs, fsFiles, manifests, fnSaw, fnOut, renders, events,
                   applyDir, namespaces, ret, argIn, argOut>>

\* the files `kpt fn sink dir` writes for a stream
SinkFiles(dir, str) == {PathJoin(dir, str[i]) : i \in 1..Len(str)}

\* a mutant of SinkInput: the sink is given an empty standard input
SinkInputEmpty(b) == <<>>

\* cmd.Stdin = bytes.NewBuffer(b): what `kpt fn sink` reads
SinkInput(b) == b

\* readConfigs, second half: `kpt fn sink .pipeline/<Dir>` with the stream on
\* its standard input; the process writes every document of the stream below
\* that directory
Sink ==
    /\ InRender /\ pc = "sink"
    /\ Enter("sink")
    /\ \E res \in RunResults(ctx) :
         LET c == Command("kpt", kptCommandArgs(WorkDir(k), <<Str("fn"), Str("sink")>>, <<>>, <<>>))
         IN  /\ Run(c, res)
             /\ IF res = "ok"
                THEN /\ fsFiles' = fsFiles \cup SinkFiles(WorkDir(k), SinkInput(stream))
                     /\ written' = written \cup SinkFiles(WorkDir(k), SinkInput(stream))
                     /\ pc' = "template"
                     /\ UNCHANGED rendered
                ELSE /\ Abort(Wrap("reading config manifests", RunCmdOutError(c)))
                     /\ UNCHANGED <<fsFiles, written>>
    /\ stream' = <<>>
    /\ UNCHANGED <<k, op, run, builds, fsDirs, manifests, fnSaw, fnOut, renders, events,
                   applyDir, namespaces, ret, argIn, argOut>>

\* a mutant of SkipTemplate: `kustomize build` is run in every render
SkipTemplateNever(found) == FALSE

\* kustomizeBuild returns nil at once when findKustomizationConfig(k.Dir)
\* returned an error, that is when it found no config
SkipTemplate(found) == ~found

\* kustomizeBuild: nothing when no kustomization config lies directly under
\* Dir; otherwise `kustomize build -o .pipeline/<Dir> <Dir>`, which writes the
\* hydrated configs, and the removal of the dry configs
KustomizeBuild ==
    /\ InRender /\ pc = "template"
    /\ IF SkipTemplate(FindKustomizationConfig(fsFiles, k.Dir))
       THEN /\ pc' = "fnrun"
            /\ UNCHANGED <<stages, cmds, ctx, fsDirs, fsFiles, written, rendered>>
       ELSE /\ Enter("template")
            /\ \E res \in RunResults(ctx), depsOk \in BOOLEAN, rmOk \in BOOLEAN :
                 /\ Run(Command("kustomize",
                            BuildCommandArgs(<<Str("-o"), WorkDir(k)>>, k.Dir)), res)
                 /\ LET out == {PathJoin(WorkDir(k), Str("hydrated.yaml"))}
                        hydrated == fsFiles \cup out
                        after == RemoveEach(DependenciesForKustomization(fsFiles, k.Dir),
                                            fsDirs, hydrated)
                    IN  IF res # "ok"
                        THEN /\ Abort("kustomize build")
                             /\ UNCHANGED <<fsDirs, fsFiles, written>>
                        ELSE IF ~depsOk
                        THEN /\ Abort("kustomize build: finding kustomization dependencies")
                             /\ fsFiles' = hydrated
                             /\ written' = written \cup out
                             /\ UNCHANGED fsDirs
                        ELSE IF ~rmOk
                        THEN /\ Abort("kustomize build: removing dry configs")
                             /\ fsFiles' = hydrated
                             /\ written' = written \cup out
                             /\ UNCHANGED fsDirs
                        ELSE /\ pc' = "fnrun"
                             /\ fsFiles' = after.files
                             /\ fsDirs' = after.dirs
                             /\ written' = written \cup out
                             /\ UNCHANGED rendered
    /\ UNCHANGED <<k, op, run, builds, stream, manifests, fnSaw, fnOut, renders, events,
                   applyDir, namespaces, ret, argIn, argOut>>

\* a mutant of ShortCircuit: the pipeline goes on with an empty list
ShortCircuitNever(list) == FALSE

\* renderManifests ends at once when kptFnRun returned no document
ShortCircuit(list) == Len(list) = 0

\* kptFnRun: `kpt fn run .pipeline --dry-run ...`, then the short-circuit of
\* renderManifests on an empty list
KptFnRun ==
    /\ InRender /\ pc = "fnrun"
    /\ Enter("fnrun")
    /\ LET a == getKptFnRunArgs(k.Fn)
       IN  IF a.err # NoErr
           THEN /\ Abort("running kpt functions: getting kpt fn run args")
                /\ UNCHANGED <<cmds, ctx, manifests, fnSaw, fnOut>>
           ELSE \E res \in RunResults(ctx) :
                  /\ Run(Command("kpt",
                            kptCommandArgs(pipeline, <<Str("fn"), Str("run")>>, a.flags, <<>>)),
                         res)
                  /\ fnSaw' = IF res = "refused" THEN fnSaw
                               ELSE {f \in fsFiles : Under(f, pipeline)}
                  /\ IF res # "ok"
                     THEN /\ Abort("running kpt functions")
                          /\ UNCHANGED <<manifests, fnOut>>
                     ELSE \E out \in FnOutputs :
                            /\ manifests' = out
                            /\ fnOut' = out
                            /\ IF ShortCircuit(out)
                               THEN /\ pc' = "rendered"
                                    /\ rendered' = [list |-> <<>>, err |-> NoErr]
                               ELSE /\ pc' = "filter"
                                    /\ UNCHANGED rendered
    /\ UNCHANGED <<k, op, run, written, builds, fsDirs, fsFiles, stream, renders, events,
                   applyDir, namespaces, ret, argIn, argOut>>

\* manifests, err = k.ExcludeKptFn(manifests)
Filter ==
    /\ InRender /\ pc = "filter"
    /\ Enter("filter")
    /\ LET r == ExcludeKptFn(manifests)
       IN  IF r.err # NoErr
           THEN /\ Abort("exclude kpt fn from manipulated resources")
                /\ manifests' = r.list
           ELSE /\ manifests' = r.list
                /\ pc' = "images"
                /\ UNCHANGED rendered
    /\ UNCHANGED <<k, op, run, written, builds, fsDirs, fsFiles, cmds, stream, fnSaw, fnOut, renders, events,
                   applyDir, namespaces, ret, argIn, argOut, ctx>>

\* a mutant of ReplaceBuilds: the image references are left as they came
ReplaceBuildsNone(list, bs) == list

\* manifests.ReplaceImages(builds) in renderManifests
ReplaceBuilds(list, bs) == ReplaceImages(list, bs)

\* manifests, err = manifests.ReplaceImages(builds).  The build results are an
\* argument of the call; the model draws them here, where they are first read.
Images ==
    /\ InRender /\ pc = "images"
    /\ Enter("images")
    /\ \E b \in BuildSets :
         /\ builds' = b
         /\ \E ok \in BOOLEAN :
              IF ok
              THEN /\ manifests' = ReplaceBuilds(manifests, b)
                   /\ pc' = "transforms"
                   /\ UNCHANGED rendered
              ELSE /\ Abort("replacing images in manifests")
                   /\ manifests' = <<>>
    /\ UNCHANGED <<k, op, run, written, fsDirs, fsFiles, cmds, stream, fnSaw, fnOut, renders, events,
                   applyDir, namespaces, ret, argIn, argOut, ctx>>

\* the loop over manifestTransforms: every transform returns the list or an error
Transforms ==
    /\ InRender /\ pc = "transforms"
    /\ Enter("transforms")
    /\ \E ok \in BOOLEAN :
         IF ok
         THEN /\ pc' = "labels"
              /\ UNCHANGED <<manifests, rendered>>
         ELSE /\ Abort("unable to transform manifests")
              /\ manifests' = <<>>
    /\ UNCHANGED <<k, op, run, written, builds, fsDirs, fsFiles, cmds, stream, fnSaw, fnOut, renders, events,
                   applyDir, namespaces, ret, argIn, argOut, ctx>>

\* a mutant of PipelineResult: the list of the last transform is returned as it is
PipelineResultUnlabelled(list, labels) == list

\* what renderManifests returns at its end: manifests.SetLabels(k.labels)
PipelineResult(list, labels) == SetLabels(list, labels)

\* return manifests.SetLabels(k.labels)
Labels ==
    /\ InRender /\ pc = "labels"
    /\ Enter("labels")
    /\ pc' = "rendered"
    /\ \E ok \in BOOLEAN :
         IF ok
         THEN /\ manifests' = PipelineResult(manifests, k.labels)
              /\ rendered' = [list |-> PipelineResult(manifests, k.labels), err |-> NoErr]
         ELSE /\ manifests' = <<>>
              /\ rendered' = [list |-> <<>>, err |-> "setting labels in manifests"]
    /\ UNCHANGED <<k, op, run, written, builds, fsDirs, fsFiles, cmds, stream, fnSaw, fnOut, renders, events,
                   applyDir, namespaces, ret, argIn, argOut, ctx>>

(***************************************************************************)
(* Render, Deploy and Cleanup around the pipeline.                         *)
(***************************************************************************)
Return(v, e) ==
    /\ pc' = "returned"
    /\ ret' = [val |-> v, err |-> e]

\* Render after renderManifests: the error is returned, or the manifests are
\* printed by outputRenderedManifests
RenderOutput ==
    /\ op = "render" /\ pc = "rendered"
    /\ IF rendered.err # NoErr
       THEN Return(<<>>, rendered.err)
       ELSE \E ok \in BOOLEAN :
              IF ok THEN Return(rendered.list, NoErr)
              ELSE Return(<<>>, "writing manifests")
    /\ UNCHANGED <<k, op, run, written, builds, fsDirs, fsFiles, cmds, stages, stream,
                   manifests, fnSaw, fnOut, renders, rendered, events, applyDir, namespaces,
                   argIn, argOut, ctx>>

\* a mutant of NothingToDeploy: Deploy goes on with an empty list
NothingToDeployNever(list) == FALSE

\* if len(manifests) == 0 { return nil, nil }
NothingToDeploy(list) == Len(list) = 0

\* a mutant of AfterCollectNamespaces: a failed extraction ends the deploy
AfterCollectNamespacesStrict(ok) == IF ok THEN "applydir" ELSE "returned"

\* where Deploy goes on once CollectNamespaces returned, with or without an
\* error: the error is sent as an event and nothing is returned
AfterCollectNamespaces(ok) == "applydir"

\* Deploy after renderManifests: the error is returned, an empty list ends
\* the deploy, otherwise the namespaces are collected
DeployRendered ==
    /\ op = "deploy" /\ pc = "rendered"
    /\ IF rendered.err # NoErr
       THEN Return(<<>>, rendered.err) /\ UNCHANGED <<events, namespaces>>
       ELSE IF NothingToDeploy(rendered.list)
       THEN Return(<<>>, NoErr) /\ UNCHANGED <<events, namespaces>>
       ELSE /\ \E ok \in BOOLEAN :
                 /\ pc' = AfterCollectNamespaces(ok)
                 /\ IF ok
                    THEN /\ namespaces' = CollectNamespaces(rendered.list)
                         /\ UNCHANGED events
                    ELSE /\ namespaces' = {}
                         /\ events' = Append(events,
                                        "could not fetch deployed resource namespace")
            /\ UNCHANGED ret
    /\ UNCHANGED <<k, op, run, written, builds, fsDirs, fsFiles, cmds, stages, stream,
                   manifests, fnSaw, fnOut, renders, rendered, applyDir, argIn, argOut, ctx>>

\* a mutant of AfterApplyDir: Cleanup returns once the directory is resolved
AfterApplyDirReturn == IF op = "deploy" THEN "output" ELSE "returned"

\* where Deploy and Cleanup go on once getApplyDir returned a directory
AfterApplyDir == IF op = "deploy" THEN "output" ELSE "destroy"

\* a mutant of UserApplyDir: the directory the user specified is not looked at
UserApplyDirIgnored(cfg) == EmptyStr

\* k.Live.Apply.Dir, the apply directory the user specified ("" = none)
UserApplyDir(cfg) == cfg.Live.Apply.Dir

\* a mutant of Initialized: the hidden directory is taken for the marker
InitializedByDir(dirs, files) == Exists(dirs, files, kptHydrated)

\* os.Stat(filepath.Join(kptHydrated, inventoryTemplate)) finds the marker
\* file: `kpt live init` has been run on .kpt-hydrated
Initialized(dirs, files) == Exists(dirs, files, PathJoin(kptHydrated, inventoryTemplate))

\* getApplyDir, and its caller's handling of the error.  os.MkdirAll does
\* nothing and returns nil when the directory is there already.
GetApplyDir ==
    /\ op \in {"deploy", "cleanup"} /\ pc = "applydir"
    /\ IF Len(UserApplyDir(k)) > 0
       THEN /\ IF ~Exists(fsDirs, fsFiles, UserApplyDir(k))
               THEN Return(<<>>, "getting applyDir") /\ UNCHANGED applyDir
               ELSE /\ applyDir' = UserApplyDir(k)
                    /\ pc' = AfterApplyDir
                    /\ UNCHANGED ret
            /\ UNCHANGED <<fsDirs, fsFiles, written, cmds, ctx>>
       ELSE \E mkOk \in {b \in BOOLEAN : kptHydrated \in fsDirs => b} :
              IF ~mkOk
              THEN /\ Return(<<>>, "getting applyDir: creating applyDir")
                   /\ UNCHANGED <<applyDir, fsDirs, fsFiles, written, cmds, ctx>>
              ELSE /\ fsDirs' = MkdirAll(fsDirs, kptHydrated)
                   /\ IF ~Initialized(fsDirs, fsFiles)
                      THEN \E res \in RunResults(ctx) :
                             /\ Run(Command("kpt",
                                  kptCommandArgs(kptHydrated, <<Str("live"), Str("init")>>,
                                                 getKptLiveInitArgs(k.Live.Apply), <<>>)), res)
                             /\ IF res = "ok"
                                THEN /\ fsFiles' = fsFiles \cup
                                          {PathJoin(kptHydrated, inventoryTemplate)}
                                     /\ written' = written \cup
                                          {PathJoin(kptHydrated, inventoryTemplate)}
                                     /\ applyDir' = kptHydrated
                                     /\ pc' = AfterApplyDir
                                     /\ UNCHANGED ret
                                ELSE /\ Return(<<>>, "getting applyDir: kpt live init")
                                     /\ UNCHANGED <<applyDir, fsFiles, written>>
                      ELSE /\ applyDir' = kptHydrated
                           /\ pc' = AfterApplyDir
                           /\ UNCHANGED <<ret, fsFiles, written, cmds, ctx>>
    /\ UNCHANGED <<k, op, run, builds, stages, stream, manifests, fnSaw, fnOut, renders, rendered,
                   events, namespaces, argIn, argOut>>

\* outputRenderedManifests(manifests.String(), applyDir/resources.yaml, out):
\* Deploy does not look at its error
DeployOutput ==
    /\ op = "deploy" /\ pc = "output"
    /\ pc' = "apply"
    /\ \E ok \in BOOLEAN :
         IF ok
         THEN /\ fsFiles' = fsFiles \cup {PathJoin(applyDir, Str("resources.yaml"))}
              /\ written' = written \cup {PathJoin(applyDir, Str("resources.yaml"))}
         ELSE UNCHANGED <<fsFiles, written>>
    /\ UNCHANGED <<k, op, run, builds, fsDirs, cmds, stages, stream, manifests, fnSaw, fnOut, renders,
                   rendered, events, applyDir, namespaces, ret, argIn, argOut, ctx>>

\* `kpt live apply <applyDir> ...`
LiveApply ==
    /\ op = "deploy" /\ pc = "apply"
    /\ \E res \in RunResults(ctx) :
         /\ Run(Command("kpt",
                kptCommandArgs(applyDir, <<Str("live"), Str("apply")>>,
                               getKptLiveApplyArgs(k.Live.Options), <<>>)), res)
         /\ IF res = "ok" THEN Return(namespaces, NoErr) ELSE Return(<<>>, "kpt live apply")
    /\ UNCHANGED <<k, op, run, written, builds, fsDirs, fsFiles, stages, stream, manifests,
                   fnSaw, fnOut, renders, rendered, events, applyDir, namespaces, argIn, argOut>>

\* `kpt live destroy <applyDir>`
LiveDestroy ==
    /\ op = "cleanup" /\ pc = "destroy"
    /\ \E res \in RunResults(ctx) :
         /\ Run(Command("kpt",
                kptCommandArgs(applyDir, <<Str("live"), Str("destroy")>>, <<>>, <<>>)), res)
         /\ IF res = "ok" THEN Return(<<>>, NoErr) ELSE Return(<<>>, "kpt live destroy")
    /\ UNCHANGED <<k, op, run, written, builds, fsDirs, fsFiles, stages, stream, manifests,
                   fnSaw, fnOut, renders, rendered, events, applyDir, namespaces, argIn, argOut>>

Next ==
    \/ NewKptDeployer
    \/ Cancel
    \/ CallRender
    \/ CallDeploy
    \/ CallCleanup
    \/ CallDependencies
    \/ GetDebugHelpersRegistry
    \/ Reset
    \/ Source
    \/ Sink
    \/ KustomizeBuild
    \/ KptFnRun
    \/ Filter
    \/ Images
    \/ Transforms
    \/ Labels
    \/ RenderOutput
    \/ DeployRendered
    \/ GetApplyDir
    \/ DeployOutput
    \/ LiveApply
    \/ LiveDestroy

Spec == Init /\ [][Next]_vars

(***************************************************************************)
(* The deployer in a project whose configuration directory is reached by   *)
(* climbing out of the working directory: Dir is ../a, next to a directory *)
(* a of the working directory that holds manifests of its own.             *)
(***************************************************************************)
ClimbDirs == {<<"..", SLASH, "a">>}

ClimbConfigs ==
    {Config(d, EmptyStr, EmptyStr, EmptyStr, NoMap) : d \in ClimbDirs \cup {Str("a")}}

InitClimb ==
    /\ k \in ClimbConfigs
    /\ op = "none"
    /\ pc = "idle"
    /\ run = 0
    /\ builds = <<>>
    /\ fsDirs = {Str("."), Str("a"), Str("b")} \cup ClimbDirs
    /\ \E withKustomization \in BOOLEAN, withOutside \in BOOLEAN :
         fsFiles = {PathJoin(Str("a"), Str("m1.yaml"))}
                     \cup (IF withKustomization THEN {KustomizationFile} ELSE {})
                     \cup (IF withOutside
                           THEN {PathJoin(d, Str("kustomization.yaml")) : d \in ClimbDirs}
                           ELSE {})
    /\ written = {}
    /\ cmds = <<>>
    /\ stages = <<>>
    /\ stream = <<>>
    /\ manifests = <<>>
    /\ fnSaw = {}
    /\ fnOut = <<>>
    /\ renders = NoRenders
    /\ rendered = NoRendered
    /\ events = <<>>
    /\ applyDir = EmptyStr
    /\ namespaces = {}
    /\ ret = NoRet
    /\ argIn = NoArgs
    /\ argOut = NoOut
    /\ ctx = "live"

SpecClimb == InitClimb /\ [][Next]_vars

(***************************************************************************)
(* Two render runs of one deployer that the caller does not serialize.     *)
(* renderManifests takes no lock and keeps its working state in the file   *)
(* system, so the stages of the two runs interleave freely on the same     *)
(* tree: each action below is one stage of one run, and no action looks at *)
(* the other run.  Of a run the model keeps where it is (pc), the stream   *)
(* its source returned, the files its own sink and template stages left in *)
(* the tree (wrote), the files its `kpt fn run` read (fnSaw), whether no   *)
(* step of the other run fell between its start and its end (alone), and   *)
(* whether the other run reset or wrote the tree between its sink and its  *)
(* `kpt fn run` (disturbed).                                               *)
(***************************************************************************)
\* the deployers of the two runs: no function options, Dir a or the project
RaceConfigs == {BaseConfig, Config(Str("a"), EmptyStr, EmptyStr, EmptyStr, NoMap)}

\* how a subprocess of a run ends; the context of the runs is never cancelled
RaceResults == {"ok", "error"}

\* run x is between its call and its return
Busy(x) == renders[x].pc \notin {"idle", "done", "failed"}

\* the runs after a step of run r that leaves it as rec; touches says the step
\* removed or wrote files of the working-state tree
RaceStep(r, rec, touches) ==
    [x \in RenderIds |->
        IF x = r
        THEN [rec EXCEPT !.alone = @ /\ \A o \in RenderIds \ {r} : ~Busy(o)]
        ELSE [renders[x] EXCEPT
                !.alone = @ /\ ~Busy(x),
                !.disturbed = @ \/ (touches /\ renders[x].pc \in {"template", "fnrun"})]]

\* what a step of a run leaves alone
RaceUnchanged ==
    UNCHANGED <<k, op, pc, run, builds, written, cmds, stages, stream, manifests, fnSaw,
                fnOut, rendered, events, applyDir, namespaces, ret, argIn, argOut, ctx>>

\* Render is called: renderManifests starts
RaceStart(r) ==
    /\ renders[r].pc = "idle"
    /\ renders' = RaceStep(r, [renders[r] EXCEPT !.pc = "reset"], FALSE)
    /\ UNCHANGED <<fsDirs, fsFiles>>
    /\ RaceUnchanged

\* os.RemoveAll and os.MkdirAll of filepath.Join(pipeline, k.Dir)
RaceReset(r) ==
    /\ renders[r].pc = "reset"
    /\ \E rmOk \in BOOLEAN, mkOk \in BOOLEAN :
         IF ~rmOk
         THEN /\ renders' = RaceStep(r, [renders[r] EXCEPT !.pc = "failed"], FALSE)
              /\ UNCHANGED <<fsDirs, fsFiles>>
         ELSE /\ fsFiles' = RemoveAllFiles(fsFiles, WorkDir(k))
              /\ IF ~mkOk
                 THEN /\ renders' = RaceStep(r, [renders[r] EXCEPT !.pc = "failed"], TRUE)
                      /\ fsDirs' = RemoveAllDirs(fsDirs, WorkDir(k))
                 ELSE /\ renders' = RaceStep(r, [renders[r] EXCEPT !.pc = "source"], TRUE)
                      /\ fsDirs' = MkdirAll(RemoveAllDirs(fsDirs, WorkDir(k)), WorkDir(k))
    /\ RaceUnchanged

\* readConfigs, first half: `kpt fn source <Dir>`
RaceSource(r) ==
    /\ renders[r].pc = "source"
    /\ \E res \in RaceResults :
         IF res = "ok"
         THEN \E s \in Streams :
                renders' = RaceStep(r, [renders[r] EXCEPT !.pc = "sink", !.stream = s], FALSE)
         ELSE renders' = RaceStep(r, [renders[r] EXCEPT !.pc = "failed"], FALSE)
    /\ UNCHANGED <<fsDirs, fsFiles>>
    /\ RaceUnchanged

\* readConfigs, second half: `kpt fn sink .pipeline/<Dir>` on the stream
RaceSink(r) ==
    /\ renders[r].pc = "sink"
    /\ \E res \in RaceResults :
         IF res = "ok"
         THEN /\ fsFiles' = fsFiles \cup SinkFiles(WorkDir(k), SinkInput(renders[r].stream))
              /\ renders' = RaceStep(r, [renders[r] EXCEPT
                                !.pc = "template", !.stream = <<>>,
                                !.wrote = SinkFiles(WorkDir(k), SinkInput(renders[r].stream))],
                                      TRUE)
         ELSE /\ renders' = RaceStep(r, [renders[r] EXCEPT !.pc = "failed", !.stream = <<>>],
                                      FALSE)
              /\ UNCHANGED fsFiles
    /\ UNCHANGED fsDirs
    /\ RaceUnchanged

\* kustomizeBuild: nothing without a kustomization config under Dir, else
\* `kustomize build -o .pipeline/<Dir> <Dir>` and the removal of the dry
\* configs, of the tree and of what the run itself had written
RaceTemplate(r) ==
    /\ renders[r].pc = "template"
    /\ IF SkipTemplate(FindKustomizationConfig(fsFiles, k.Dir))
       THEN /\ renders' = RaceStep(r, [renders[r] EXCEPT !.pc = "fnrun"], FALSE)
            /\ UNCHANGED <<fsDirs, fsFiles>>
       ELSE \E res \in RaceResults, depsOk \in BOOLEAN, rmOk \in BOOLEAN :
              LET out == {PathJoin(WorkDir(k), Str("hydrated.yaml"))}
                  deps == DependenciesForKustomization(fsFiles, k.Dir)
                  after == RemoveEach(deps, fsDirs, fsFiles \cup out)
                  own == renders[r].wrote \cup out
              IN  IF res # "ok"
                  THEN /\ renders' = RaceStep(r, [renders[r] EXCEPT !.pc = "failed"], FALSE)
                       /\ UNCHANGED <<fsDirs, fsFiles>>
                  ELSE IF ~depsOk \/ ~rmOk
                  THEN /\ renders' = RaceStep(r, [renders[r] EXCEPT !.pc = "failed",
                                                                    !.wrote = own], TRUE)
                       /\ fsFiles' = fsFiles \cup out
                       /\ UNCHANGED fsDirs
                  ELSE /\ renders' = RaceStep(r, [renders[r] EXCEPT
                                         !.pc = "fnrun",
                                         !.wrote = RemoveEach(deps, {}, own).files], TRUE)
                       /\ fsFiles' = after.files
                       /\ fsDirs' = after.dirs
    /\ RaceUnchanged

\* kptFnRun: `kpt fn run .pipeline --dry-run` reads the tree as it is now;
\* what renderManifests does after it touches no file
RaceFnRun(r) ==
    /\ renders[r].pc = "fnrun"
    /\ \E res \in RaceResults :
         renders' = RaceStep(r, [renders[r] EXCEPT
                        !.pc = IF res = "ok" THEN "done" ELSE "failed",
                        !.fnSaw = {f \in fsFiles : Under(f, pipeline)}], FALSE)
    /\ UNCHANGED <<fsDirs, fsFiles>>
    /\ RaceUnchanged

InitRace ==
    /\ k \in RaceConfigs
    /\ op = "none"
    /\ pc = "idle"
    /\ run = 0
    /\ builds = <<>>
    /\ \E withKustomization \in BOOLEAN :
         /\ fsDirs = {Str("."), Str("a"), Str("b")}
         /\ fsFiles = IF withKustomization THEN {KustomizationFile} ELSE {}
    /\ written = {}
    /\ cmds = <<>>
    /\ stages = <<>>
    /\ stream = <<>>
    /\ manifests = <<>>
    /\ fnSaw = {}
    /\ fnOut = <<>>
    /\ renders = NoRenders
    /\ rendered = NoRendered
    /\ events = <<>>
    /\ applyDir = EmptyStr
    /\ namespaces = {}
    /\ ret = NoRet
    /\ argIn = NoArgs
    /\ argOut = NoOut
    /\ ctx = "live"

NextRace ==
    \E r \in RenderIds :
        \/ RaceStart(r)
        \/ RaceReset(r)
        \/ RaceSource(r)
        \/ RaceSink(r)
        \/ RaceTemplate(r)
        \/ RaceFnRun(r)

SpecRace == InitRace /\ [][NextRace]_vars

(***************************************************************************)
(* The argument builders on their own: the inputs are drawn from bounded   *)
(* sets and the builder is applied to them.                                *)
(***************************************************************************)
RECURSIVE ListsUpTo(_, _)
\* the lists of at most n elements of S
ListsUpTo(S, n) ==
    IF n = 0 THEN {<<>>}
    ELSE ListsUpTo(S, n - 1)
            \cup {Append(l, x) : l \in {m \in ListsUpTo(S, n - 1) : Len(m) = n - 1}, x \in S}

\* the strings handed to kptCommandArgs: "", "x", "x y" and "x  y"
ArgStrings == {EmptyStr, Str("x"), <<"x", SP, "y">>, <<"x", SP, SP, "y">>}
ArgDirs == {EmptyStr, Str("test"), <<"my", SP, "dir">>}
MountEntries == {EmptyStr, Str("type=bind")}

\* the calls of kptCommandArgs with lists of at most maxList commands and
\* flags and at most maxGlobal global flags
KptCommandArgsInputs(maxList, maxGlobal) ==
    {[fn |-> "kptCommandArgs", dir |-> d, commands |-> c, flags |-> f, globalFlags |-> g] :
        d \in ArgDirs, c \in ListsUpTo(ArgStrings, maxList),
        f \in ListsUpTo(ArgStrings, maxList), g \in ListsUpTo(ArgStrings, maxGlobal)}

KptFnRunArgsInputs ==
    {[fn |-> "getKptFnRunArgs",
      Fn |-> [FnPath |-> fp, Image |-> im, GlobalScope |-> gs, Mount |-> mo,
              Network |-> nw, NetworkName |-> nn]] :
        fp \in FnPaths, im \in FnImages, gs \in BOOLEAN,
        mo \in ListsUpTo(MountEntries, MaxMount), nw \in BOOLEAN,
        nn \in {EmptyStr, Str("foo")}}

\* the calls of getKptLiveApplyArgs, each with the apply directory the
\* command is then run on
KptLiveApplyArgsInputs ==
    {[fn |-> "getKptLiveApplyArgs", dir |-> d,
      Options |-> [PollPeriod |-> pp, PrunePropagationPolicy |-> ppp,
                   PruneTimeout |-> pt, ReconcileTimeout |-> rt]] :
        d \in {kptHydrated, Str("valid_path")},
        pp \in {EmptyStr, Str("foo"), <<"5", SP, "s">>},
        ppp \in {EmptyStr, Str("Orphan")},
        pt \in {EmptyStr, Str("10s")},
        rt \in {EmptyStr, Str("1m")}}

InitArgs ==
    /\ k = BaseConfig
    /\ op = "none"
    /\ pc = "idle"
    /\ run = 0
    /\ builds = <<>>
    /\ fsDirs = {Str(".")}
    /\ fsFiles = {}
    /\ written = {}
    /\ cmds = <<>>
    /\ stages = <<>>
    /\ stream = <<>>
    /\ manifests = <<>>
    /\ fnSaw = {}
    /\ fnOut = <<>>
    /\ renders = NoRenders
    /\ rendered = NoRendered
    /\ events = <<>>
    /\ applyDir = EmptyStr
    /\ namespaces = {}
    /\ ret = NoRet
    /\ argIn \in KptCommandArgsInputs(MaxList, MaxGlobal) \cup KptFnRunArgsInputs
                    \cup KptLiveApplyArgsInputs
    /\ argOut = NoOut
    /\ ctx = "live"

\* kptCommandArgs(dir, commands, flags, globalFlags) is called
CallKptCommandArgs ==
    /\ argIn.fn = "kptCommandArgs" /\ ~argOut.done
    /\ argOut' = [done |-> TRUE,
                  args |-> kptCommandArgs(argIn.dir, argIn.commands, argIn.flags,
                                          argIn.globalFlags),
                  err |-> NoErr]
    /\ UNCHANGED <<pipeVars, argIn>>

\* k.getKptFnRunArgs() is called
CallGetKptFnRunArgs ==
    /\ argIn.fn = "getKptFnRunArgs" /\ ~argOut.done
    /\ argOut' = [done |-> TRUE,
                  args |-> getKptFnRunArgs(argIn.Fn).flags,
                  err |-> getKptFnRunArgs(argIn.Fn).err]
    /\ UNCHANGED <<pipeVars, argIn>>

\* k.getKptLiveApplyArgs() is called, and the arguments of the command are
\* built from it as Deploy builds them
CallGetKptLiveApplyArgs ==
    /\ argIn.fn = "getKptLiveApplyArgs" /\ ~argOut.done
    /\ argOut' = [done |-> TRUE,
                  args |-> getKptLiveApplyArgs(argIn.Options),
                  err |-> NoErr,
                  line |-> kptCommandArgs(argIn.dir, <<Str("live"), Str("apply")>>,
                                          getKptLiveApplyArgs(argIn.Options), <<>>)]
    /\ UNCHANGED <<pipeVars, argIn>>

NextArgs ==
    \/ CallKptCommandArgs
    \/ CallGetKptFnRunArgs
    \/ CallGetKptLiveApplyArgs

SpecArgs == InitArgs /\ [][NextArgs]_vars

(***************************************************************************)
(* The function-annotation filter on its own: a manifest list is drawn     *)
(* from a bounded set, ExcludeKptFn is applied to it, and then to its own  *)
(* output.                                                                 *)
(***************************************************************************)
FilterDocs == {pod, annDoc, fnDoc, fnDocNote, fnDocLocal, badDoc}

ExcludeKptFnInputs ==
    {[fn |-> "ExcludeKptFn", manifest |-> m] : m \in ListsUpTo(FilterDocs, MaxDocs)}

NoFiltered == [list |-> <<>>, err |-> "none"]

InitFilter ==
    /\ k = BaseConfig
    /\ op = "none"
    /\ pc = "idle"
    /\ run = 0
    /\ builds = <<>>
    /\ fsDirs = {Str(".")}
    /\ fsFiles = {}
    /\ written = {}
    /\ cmds = <<>>
    /\ stages = <<>>
    /\ stream = <<>>
    /\ manifests = <<>>
    /\ fnSaw = {}
    /\ fnOut = <<>>
    /\ renders = NoRenders
    /\ rendered = NoRendered
    /\ events = <<>>
    /\ applyDir = EmptyStr
    /\ namespaces = {}
    /\ ret = NoRet
    /\ argIn \in ExcludeKptFnInputs
    /\ argOut = [done |-> FALSE, once |-> NoFiltered, twice |-> NoFiltered]
    /\ ctx = "live"

\* k.ExcludeKptFn(manifest) is called
CallExcludeKptFn ==
    /\ argIn.fn = "ExcludeKptFn" /\ ~argOut.done
    /\ argOut' = [done |-> TRUE, once |-> ExcludeKptFn(argIn.manifest),
                  twice |-> NoFiltered]
    /\ UNCHANGED <<pipeVars, argIn>>

\* k.ExcludeKptFn is called on the list the first call returned
CallExcludeKptFnAgain ==
    /\ argIn.fn = "ExcludeKptFn" /\ argOut.done
    /\ argOut.once.err = NoErr /\ argOut.twice.err = "none"
    /\ argOut' = [argOut EXCEPT !.twice = ExcludeKptFn(argOut.once.list)]
    /\ UNCHANGED <<pipeVars, argIn>>

NextFilter ==
    \/ CallExcludeKptFn
    \/ CallExcludeKptFnAgain

SpecFilter == InitFilter /\ [][NextFilter]_vars

(***************************************************************************)
(* Dependencies on its own: a project whose files come and go between the  *)
(* calls.                                                                  *)
(***************************************************************************)
MaxEdits == 2       \* files added to or removed from the project, per behaviour

\* the directories of the project; one of them has a resource name
DepDirs ==
    {Str("."), Str("config"), PathJoin(Str("config"), Str("sub")),
     PathJoin(Str("config"), Str("dir.yaml")), Str("kpt-fn")}

\* the files the project may hold
DepFiles ==
    {Str("foo.yaml"), Str("bar.yml"), Str("README.md"), Str("FOO.YAML"),
     Str("config.yaml"), Str("kustomization.yaml"),
     PathJoin(Str("config"), Str("deployment.yaml")),
     PathJoin(PathJoin(Str("config"), Str("sub")), Str("deep.yml")),
     PathJoin(Str("kpt-fn"), Str("kpt-func.yaml"))}

\* the files a project starts with
DepStarts ==
    {{},
     {Str("foo.yaml"), Str("bar.yml"), Str("README.md")},
     {Str("config.yaml"), Str("FOO.YAML"), Str("kustomization.yaml"),
      PathJoin(Str("config"), Str("deployment.yaml")),
      PathJoin(PathJoin(Str("config"), Str("sub")), Str("deep.yml")),
      PathJoin(Str("kpt-fn"), Str("kpt-func.yaml"))}}

\* the deployers: Dir is the project, a sub-directory or a missing path;
\* FnPath is unset, a file under Dir (also
\* spelled ./foo.yaml), a directory outside Dir or a directory under Dir
DepConfigs ==
    {Config(d, EmptyStr, EmptyStr, EmptyStr, NoMap) :
        d \in {Str("."), Str("config"), Str("invalid_path")}}
      \cup {Config(Str("."), fp, EmptyStr, EmptyStr, NoMap) :
              fp \in {Str("foo.yaml"), <<".", SLASH, "foo.yaml">>, Str("kpt-fn")}}
      \cup {Config(Str("config"), fp, EmptyStr, EmptyStr, NoMap) :
              fp \in {Str("kpt-fn"), PathJoin(Str("config"), Str("sub"))}}

InitDeps ==
    /\ k \in DepConfigs
    /\ op = "none"
    /\ pc = "idle"
    /\ run = 0
    /\ builds = <<>>
    /\ fsDirs = DepDirs
    /\ fsFiles \in DepStarts
    /\ written = {}
    /\ cmds = <<>>
    /\ stages = <<>>
    /\ stream = <<>>
    /\ manifests = <<>>
    /\ fnSaw = {}
    /\ fnOut = <<>>
    /\ renders = NoRenders
    /\ rendered = NoRendered
    /\ events = <<>>
    /\ applyDir = EmptyStr
    /\ namespaces = {}
    /\ ret = NoRet
    /\ argIn = [fn |-> "Dependencies", edits |-> 0, last |-> EmptyStr]
    /\ argOut = NoOut
    /\ ctx = "live"

\* the user creates a file under Dir, once the result of the last call
\* has been taken; argIn keeps the number of edits and the file that was
\* created last after a call of Dependencies
AddFile ==
    /\ argIn.fn = "Dependencies" /\ argIn.edits < MaxEdits
    /\ \E f \in DepFiles \ fsFiles :
         /\ Under(f, k.Dir)
         /\ fsFiles' = fsFiles \cup {f}
         /\ argIn' = [argIn EXCEPT !.edits = @ + 1,
                                   !.last = IF op = "dependencies" THEN f ELSE @]
    /\ pc' = "idle"
    /\ UNCHANGED <<k, op, run, builds, fsDirs, written, cmds, stages, stream, manifests,
                   fnSaw, fnOut, renders, rendered, events, applyDir, namespaces, ret, argOut, ctx>>

\* the user deletes a file under Dir
RemoveFile ==
    /\ argIn.fn = "Dependencies" /\ argIn.edits < MaxEdits
    /\ \E f \in fsFiles :
         /\ Under(f, k.Dir)
         /\ fsFiles' = fsFiles \ {f}
         /\ argIn' = [argIn EXCEPT !.edits = @ + 1]
    /\ pc' = "idle"
    /\ UNCHANGED <<k, op, run, builds, fsDirs, written, cmds, stages, stream, manifests,
                   fnSaw, fnOut, renders, rendered, events, applyDir, namespaces, ret, argOut, ctx>>

NextDeps ==
    \/ CallDependencies
    \/ AddFile
    \/ RemoveFile

SpecDeps == InitDeps /\ [][NextDeps]_vars

(***************************************************************************)
(* Properties.                                                             *)
(***************************************************************************)
StageOrder == <<"reset", "source", "sink", "template", "fnrun", "filter",
                "images", "transforms", "labels">>
StageNames == {StageOrder[i] : i \in 1..Len(StageOrder)}
Rank(st) == CHOOSE i \in 1..Len(StageOrder) : StageOrder[i] = st
Last(seq) == IF Len(seq) = 0 THEN "none" ELSE seq[Len(seq)]
Failed(e) == e \notin {NoErr, "none"}

\* the stage whose failure an error of renderManifests reports
StagesOfError(e) ==
    CASE e = "deleting temporary directory" -> {"reset"}
      [] e = "creating temporary directory" -> {"reset"}
      [] e = "reading config manifests: kpt fn source" -> {"source"}
      [] e = "reading config manifests: kpt fn sink" -> {"sink"}
      [] e = "kustomize build" -> {"template"}
      [] e = "kustomize build: finding kustomization dependencies" -> {"template"}
      [] e = "kustomize build: removing dry configs" -> {"template"}
      [] e = "running kpt functions: getting kpt fn run args" -> {"fnrun"}
      [] e = "running kpt functions" -> {"fnrun"}
      [] e = "exclude kpt fn from manipulated resources" -> {"filter"}
      [] e = "replacing images in manifests" -> {"images"}
      [] e = "unable to transform manifests" -> {"transforms"}
      [] e = "setting labels in manifests" -> {"labels"}
      [] OTHER -> {}

IsKpt(c, a, b) ==
    c.name = "kpt" /\ Len(c.args) >= 2 /\ c.args[1] = Str(a) /\ c.args[2] = Str(b)
IsFnRun(c) == IsKpt(c, "fn", "run")
IsLive(c) == c.name = "kpt" /\ Len(c.args) >= 1 /\ c.args[1] = Str("live")
HasArg(c, a) == \E i \in 1..Len(c.args) : c.args[i] = Str(a)
Invoked == {cmds[i] : i \in 1..Len(cmds)}
BothFn(cfg) == Len(cfg.Fn.FnPath) > 0 /\ Len(cfg.Fn.Image) > 0

C2_FailFast ==
    Failed(rendered.err) =>
        /\ rendered.list = <<>>
        /\ pc \in {"rendered", "returned"}
        /\ StagesOfError(rendered.err) # {} =>
              /\ Len(stages) > 0
              /\ Last(stages) \in StagesOfError(rendered.err)
              /\ \A i \in 1..(Len(stages) - 1) : stages[i] # Last(stages)
        /\ StagesOfError(rendered.err) = {} => stages = <<>>
        /\ pc = "returned" => ret.err = rendered.err /\ ret.val = <<>>

\* C2 witness: the filter failed on a malformed document that followed a good one
C2_Witness ==
    /\ pc = "returned"
    /\ rendered.err = "exclude kpt fn from manipulated resources"
    /\ Len(manifests) = 0
    /\ Last(stages) = "filter"

\* C3: when `kpt fn run` wrote nothing to its standard output, the render run
\* ends successfully with an empty result and the fnrun stage is the last
\* stage entered: filter, images, transforms and labels are not applied and
\* the build results are never read.
C3_ShortCircuit ==
    (/\ \E c \in Invoked : IsFnRun(c)
     /\ manifests = <<>>
     /\ ~Failed(rendered.err))
        => /\ rendered = [list |-> <<>>, err |-> NoErr]
           /\ pc \in {"rendered", "returned"}
           /\ Last(stages) = "fnrun"
           /\ builds = <<>>
           /\ (op = "render" /\ pc = "returned" /\ ~Failed(ret.err)) => ret.val = <<>>

\* C3 witness: a short-circuited Render of a deployer built with labels
C3_Witness ==
    /\ op = "render" /\ pc = "returned"
    /\ DOMAIN k.labels # {}
    /\ Last(stages) = "fnrun"
    /\ rendered = [list |-> <<>>, err |-> NoErr]
    /\ ret.err = NoErr

\* C4: when the source stage starts, the working-state subtree exists and is
\* empty and no external command of the run has been invoked; a run aborted
\* by the reset has invoked no external command.
C4_ResetBeforeSource ==
    /\ (InRender /\ pc = "source") =>
          /\ WorkDir(k) \in fsDirs
          /\ \A f \in fsFiles : ~Under(f, WorkDir(k))
          /\ \A d \in fsDirs : Under(d, WorkDir(k)) => d = WorkDir(k)
          /\ cmds = <<>>
    /\ (InRender /\ cmds # <<>>) => (Len(stages) > 1 /\ stages[1] = "reset")
    /\ rendered.err \in {"deleting temporary directory", "creating temporary directory"}
          => /\ cmds = <<>>
             /\ pc \in {"rendered", "returned"}
             /\ pc = "returned" => ret.err = rendered.err

\* C4 witness: the second run on a directory reaches the source stage while
\* files of the scratch tree exist elsewhere
C4_Witness ==
    /\ InRender /\ pc = "source" /\ run = 2
    /\ \E f \in fsFiles : Under(f, pipeline)

\* C5: nothing a previous run wrote below .pipeline is among the files that
\* `kpt fn run` reads: what it sees was written by the current run.
C5_NoStaleState == fnSaw \subseteq written

\* C6: with both fn-path and image configured the render run fails and
\* `kpt fn run` is not invoked; with at most one of them configured the
\* argument assembly does not fail and the command is run, unless the
\* context was cancelled before.
C6_FnPathXorImage ==
    /\ BothFn(k) =>
          /\ \A c \in Invoked : ~IsFnRun(c)
          /\ (Len(stages) > 0 /\ Last(stages) = "fnrun") =>
                /\ rendered.err = "running kpt functions: getting kpt fn run args"
                /\ rendered.list = <<>>
          /\ (InRender /\ pc = "returned") => Failed(ret.err)
    /\ ~BothFn(k) =>
          /\ rendered.err # "running kpt functions: getting kpt fn run args"
          /\ (Len(stages) > 0 /\ Last(stages) = "fnrun") =>
                (ctx = "cancelled" \/ \E c \in Invoked : IsFnRun(c))

\* C6 witness: a Render with both options set has returned the error
C6_Witness ==
    /\ op = "render" /\ pc = "returned" /\ BothFn(k)
    /\ ret.err = "running kpt functions: getting kpt fn run args"

ConfigErrors == {"running kpt functions: getting kpt fn run args", "getting applyDir"}
MissingApplyDir(cfg) ==
    /\ Len(cfg.Live.Apply.Dir) > 0
    /\ Clean(cfg.Live.Apply.Dir) \notin fsDirs \cup fsFiles

\* C7 as stated: an operation that ends in a configuration error has invoked
\* no external command.
C7_NoCommandBeforeConfigError ==
    (pc = "returned" /\ ret.err \in ConfigErrors) => cmds = <<>>

\* C7: a configuration error is detected before the subprocess it configures
\* is run.  With both fn-path and image set `kpt fn run` is never invoked and
\* the run fails having invoked only `kpt fn source`, `kpt fn sink` and
\* `kustomize build`; with a missing explicit apply directory no `kpt live`
\* command is invoked, Deploy fails after the render pipeline ran, and
\* Cleanup fails having invoked nothing.
C7_ConfigErrorBeforeItsCommand ==
    /\ BothFn(k) =>
          /\ \A c \in Invoked : ~IsFnRun(c) /\ (InRender => ~IsLive(c))
          /\ (InRender /\ pc = "returned") => Failed(ret.err)
    /\ (pc = "returned" /\ ret.err = "running kpt functions: getting kpt fn run args") =>
          /\ BothFn(k)
          /\ Len(cmds) >= 2
          /\ IsKpt(cmds[1], "fn", "source") /\ IsKpt(cmds[2], "fn", "sink")
          /\ \A i \in 3..Len(cmds) : cmds[i].name = "kustomize"
    /\ MissingApplyDir(k) =>
          /\ \A c \in Invoked : ~IsLive(c)
          /\ (op = "cleanup" /\ pc = "returned") =>
                ret.err = "getting applyDir" /\ cmds = <<>>
          /\ (op = "deploy" /\ pc = "returned") =>
                \/ Failed(ret.err)
                \/ rendered = [list |-> <<>>, err |-> NoErr]
    /\ (pc = "returned" /\ ret.err = "getting applyDir") =>
          /\ MissingApplyDir(k)
          /\ op = "deploy" => (\E c \in Invoked : IsFnRun(c)) /\ Len(rendered.list) > 0

\* C7 witness: a Deploy failed on the missing apply directory after its render
\* pipeline had invoked `kpt fn run`
C7_Witness ==
    /\ op = "deploy" /\ pc = "returned"
    /\ ret.err = "getting applyDir"
    /\ \E c \in Invoked : IsFnRun(c)

FnFlagOrder == <<"--global-scope", "--mount", "--network", "--network-name",
                 "--fn-path", "--image">>

\* the option of a flag is set
OptionSet(fn, name) ==
    CASE name = "--global-scope" -> fn.GlobalScope
      [] name = "--mount" -> Len(fn.Mount) > 0
      [] name = "--network" -> fn.Network
      [] name = "--network-name" -> fn.NetworkName # EmptyStr
      [] name = "--fn-path" -> fn.FnPath # EmptyStr
      [] name = "--image" -> fn.Image # EmptyStr

\* v is the value that has to follow the flag
IsValueOf(fn, name, v) ==
    CASE name = "--mount" -> Split(v, COMMA) = fn.Mount
      [] name = "--network-name" -> v = fn.NetworkName
      [] name = "--fn-path" -> v = fn.FnPath
      [] name = "--image" -> v = fn.Image

TakesValue(name) == name \in {"--mount", "--network-name", "--fn-path", "--image"}

RECURSIVE FlagsAre(_, _, _)
\* the list a holds, for the flag names still to do, the flag of every set
\* option, followed by its value, in that order and nothing else
FlagsAre(a, fn, names) ==
    IF Len(names) = 0 THEN Len(a) = 0
    ELSE IF ~OptionSet(fn, Head(names)) THEN FlagsAre(a, fn, Tail(names))
    ELSE IF TakesValue(Head(names))
    THEN /\ Len(a) >= 2
         /\ a[1] = Str(Head(names))
         /\ IsValueOf(fn, Head(names), a[2])
         /\ FlagsAre(SubSeq(a, 3, Len(a)), fn, Tail(names))
    ELSE /\ Len(a) >= 1
         /\ a[1] = Str(Head(names))
         /\ FlagsAre(Tail(a), fn, Tail(names))

TokCount(v) == 1 + Cardinality({i \in 1..Len(v) : v[i] = SP})

RECURSIVE TokTotal(_)
TokTotal(list) ==
    IF Len(list) = 0 THEN 0 ELSE TokCount(Head(list)) + TokTotal(Tail(list))

\* from offset off on, args holds the tokens of every element of list in
\* order: the tokens of an element hold no space and give the element back
\* when joined with single spaces
SegmentIs(args, off, list) ==
    \A i \in 1..Len(list) :
        LET o == off + TokTotal(SubSeq(list, 1, i - 1))
            n == TokCount(list[i])
        IN  /\ o + n <= Len(args)
            /\ Join(SubSeq(args, o + 1, o + n), SP) = list[i]
            /\ \A j \in (o + 1)..(o + n) : \A x \in 1..Len(args[j]) : args[j][x] # SP

\* C10: kptCommandArgs returns the tokens of commands, then dir as one token
\* when it is not empty, then the tokens of flags, then the tokens of
\* globalFlags, every element split on single spaces; nothing else.
C10_KptCommandArgsOrder ==
    (argOut.done /\ argIn.fn = "kptCommandArgs") =>
        LET a == argOut.args
            nc == TokTotal(argIn.commands)
            nd == IF argIn.dir # EmptyStr THEN 1 ELSE 0
            nf == TokTotal(argIn.flags)
            ng == TokTotal(argIn.globalFlags)
        IN  /\ Len(a) = nc + nd + nf + ng
            /\ SegmentIs(a, 0, argIn.commands)
            /\ nd = 1 => a[nc + 1] = argIn.dir
            /\ SegmentIs(a, nc + nd, argIn.flags)
            /\ SegmentIs(a, nc + nd + nf, argIn.globalFlags)

\* C10 witness: a call with a directory holding a space, a command with two
\* spaces in a row, an empty flag and a global flag
C10_Witness ==
    /\ argOut.done /\ argIn.fn = "kptCommandArgs"
    /\ argIn.dir = <<"my", SP, "dir">>
    /\ argIn.commands = <<Str("x"), <<"x", SP, SP, "y">>>>
    /\ argIn.flags = <<EmptyStr, <<"x", SP, "y">>>>
    /\ argIn.globalFlags = <<Str("x")>>
    /\ Len(argOut.args) = 9

(***************************************************************************)
(* The function-annotation filter.                                         *)
(***************************************************************************)
Filtered == argIn.fn = "ExcludeKptFn" /\ argOut.done /\ argOut.once.err = NoErr

\* the annotations of d other than the local-config one
OtherAnns(d) == [a \in DOMAIN d.anns \ {kptFnLocalConfig} |-> d.anns[a]]

\* d and e are the same resource but for their annotations and their bytes
SameButAnns(d, e) == [d EXCEPT !.anns = NoMap, !.raw = TRUE]
                        = [e EXCEPT !.anns = NoMap, !.raw = TRUE]

\* C11: when ExcludeKptFn succeeds, its output has one document per input
\* document, and every input document that has no function-marker annotation
\* (one without any annotation included) is at its place in the output with
\* the bytes it came in with.
C11_UnmarkedPassThrough ==
    Filtered =>
        /\ Len(argOut.once.list) = Len(argIn.manifest)
        /\ \A i \in 1..Len(argIn.manifest) :
              kptFnAnnotation \notin DOMAIN argIn.manifest[i].anns =>
                 /\ argOut.once.list[i] = argIn.manifest[i]
                 /\ argOut.once.list[i].raw

C11_Witness ==
    /\ Filtered
    /\ \E i \in 1..Len(argIn.manifest) : argIn.manifest[i] = pod
    /\ \E i \in 1..Len(argIn.manifest) : argIn.manifest[i] = annDoc
    /\ \E i \in 1..Len(argIn.manifest) : argIn.manifest[i] = fnDoc

\* C12: when ExcludeKptFn succeeds, a document with the function marker and
\* no local-config annotation comes out with local-config "true" and its
\* other annotations and fields as they were; one that has a local-config
\* annotation, whatever its value, comes out unchanged.
C12_LocalConfigSetOnce ==
    Filtered =>
        \A i \in 1..Len(argIn.manifest) :
            LET d == argIn.manifest[i]
                e == argOut.once.list[i]
            IN  kptFnAnnotation \in DOMAIN d.anns =>
                  IF kptFnLocalConfig \in DOMAIN d.anns
                  THEN e = d
                  ELSE /\ kptFnLocalConfig \in DOMAIN e.anns
                       /\ e.anns[kptFnLocalConfig] = "true"
                       /\ OtherAnns(e) = d.anns
                       /\ SameButAnns(d, e)

C12_Witness ==
    /\ Filtered
    /\ \E i \in 1..Len(argIn.manifest) :
          /\ argIn.manifest[i] = fnDocNote
          /\ argOut.once.list[i].anns[kptFnLocalConfig] = "true"
    /\ \E i \in 1..Len(argIn.manifest) :
          /\ argIn.manifest[i] = fnDocLocal
          /\ argOut.once.list[i].anns[kptFnLocalConfig] = "false"

\* C13: when ExcludeKptFn succeeds on a list, it succeeds on its own output
\* and returns that output again.
C13_FilterIdempotent ==
    (Filtered /\ argOut.twice.err # "none") => argOut.twice = argOut.once

C13_Witness ==
    /\ Filtered
    /\ argOut.twice.err = NoErr
    /\ argOut.once.list # argIn.manifest
    /\ Len(argIn.manifest) = MaxDocs

(***************************************************************************)
(* The apply directory, Deploy and Cleanup.                                *)
(***************************************************************************)
InventoryMarker == PathJoin(kptHydrated, inventoryTemplate)
ResourcesFile == PathJoin(applyDir, Str("resources.yaml"))
IsLiveInit(c) == IsKpt(c, "live", "init")
IsLiveApply(c) == IsKpt(c, "live", "apply")
IsLiveDestroy(c) == IsKpt(c, "live", "destroy")
ExplicitApplyDir(cfg) == Len(cfg.Live.Apply.Dir) > 0
EmptyRender == [list |-> <<>>, err |-> NoErr]

\* C14: with an explicit apply directory that does not exist, the step of
\* getApplyDir ends the operation with the error "getting applyDir", creates
\* no directory and no file and invokes no command; no `kpt live` command is
\* ever invoked by the operation, and Deploy and Cleanup never get past
\* getApplyDir.
C14_MissingApplyDirFails ==
    /\ [](MissingApplyDir(k) =>
            /\ \A c \in Invoked : ~IsLive(c)
            /\ pc \notin {"output", "apply", "destroy"}
            /\ applyDir = EmptyStr
            /\ (op = "cleanup" /\ pc = "returned") => ret.err = "getting applyDir")
    /\ [][(pc = "applydir" /\ MissingApplyDir(k) /\ pc' # pc) =>
            /\ pc' = "returned"
            /\ ret'.err = "getting applyDir"
            /\ UNCHANGED <<fsDirs, fsFiles, written, cmds, applyDir>>]_vars

C14_Witness ==
    /\ op = "cleanup" /\ pc = "returned"
    /\ MissingApplyDir(k)
    /\ ret.err = "getting applyDir"
    /\ cmds = <<>>
    /\ kptHydrated \notin fsDirs

\* C15 as stated: with no explicit apply directory, a Deploy or Cleanup call
\* has invoked `kpt live init` exactly when the marker file was absent at
\* the call (it is absent now, or this call created it).
C15_InitIffMarkerAbsent ==
    (op \in {"deploy", "cleanup"} /\ pc = "returned" /\ ~ExplicitApplyDir(k)) =>
        ((\E c \in Invoked : IsLiveInit(c))
            <=> (InventoryMarker \notin fsFiles \/ InventoryMarker \in written))

\* C15: with no explicit apply directory, the step of getApplyDir invokes
\* `kpt live init .kpt-hydrated` exactly when .kpt-hydrated could be created,
\* the marker file is absent at that step and the context of the operation
\* has not been cancelled; it invokes nothing else; an
\* init that succeeded has created the marker; the marker, once there,
\* stays; so no operation invokes init twice and none invokes it once the
\* marker is there.
C15_InitOnceMarkerAbsent ==
    /\ [][(pc = "applydir" /\ ~ExplicitApplyDir(k) /\ pc' # pc) =>
            /\ (cmds' # cmds) <=>
                  /\ InventoryMarker \notin fsFiles
                  /\ ret'.err # "getting applyDir: creating applyDir"
                  /\ ctx = "live"
            /\ (cmds' # cmds) =>
                  /\ Len(cmds') = Len(cmds) + 1
                  /\ IsLiveInit(cmds'[Len(cmds')])
                  /\ cmds'[Len(cmds')].args[3] = kptHydrated
            /\ (cmds' # cmds /\ pc' # "returned") => InventoryMarker \in fsFiles'
            /\ (pc' # "returned") => (applyDir' = kptHydrated /\ kptHydrated \in fsDirs')]_vars
    /\ [][(InventoryMarker \in fsFiles) => (InventoryMarker \in fsFiles')]_vars
    /\ [](Cardinality({i \in 1..Len(cmds) : IsLiveInit(cmds[i])}) <= 1)
    /\ []((\E c \in Invoked : IsLiveInit(c)) =>
              (InventoryMarker \in fsFiles => InventoryMarker \in written))

\* C15 witness: a later call found the marker an earlier call had created and
\* went on to `kpt live` without any init
C15_Witness ==
    /\ op \in {"deploy", "cleanup"} /\ pc = "returned"
    /\ ~ExplicitApplyDir(k)
    /\ run >= 2
    /\ InventoryMarker \in fsFiles /\ InventoryMarker \notin written
    /\ \A c \in Invoked : ~IsLiveInit(c)
    /\ \E c \in Invoked : IsLiveApply(c) \/ IsLiveDestroy(c)

\* C16: with an explicit apply directory that exists, the step of getApplyDir
\* returns that very path, creates no directory and no file (.kpt-hydrated
\* neither) and invokes no command, with or without an inventory marker in
\* the directory; no operation of such a deployer invokes `kpt live init`.
C16_ExplicitApplyDirUsed ==
    /\ [][(pc = "applydir" /\ ExplicitApplyDir(k) /\ ~MissingApplyDir(k) /\ pc' # pc) =>
            /\ applyDir' = k.Live.Apply.Dir
            /\ pc' \in {"output", "destroy"}
            /\ UNCHANGED <<fsDirs, fsFiles, written, cmds, ret>>]_vars
    /\ [](ExplicitApplyDir(k) =>
            /\ \A c \in Invoked : ~IsLiveInit(c)
            /\ applyDir \in {EmptyStr, k.Live.Apply.Dir})

C16_Witness ==
    /\ op = "cleanup" /\ pc = "returned" /\ ret.err = NoErr
    /\ ExplicitApplyDir(k)
    /\ applyDir = k.Live.Apply.Dir
    /\ PathJoin(k.Live.Apply.Dir, inventoryTemplate) \notin fsFiles
    /\ kptHydrated \notin fsDirs
    /\ \E c \in Invoked : IsLiveDestroy(c) /\ c.args[3] = k.Live.Apply.Dir

\* C17 as stated: a Deploy that has invoked `kpt live apply` had a render run
\* that succeeded with a non-empty list, a resolved apply directory and the
\* manifests written to resources.yaml in it; it invoked apply once, on that
\* directory.
C17_ApplyAfterRenderResolveWrite ==
    (op = "deploy" /\ \E c \in Invoked : IsLiveApply(c)) =>
        /\ rendered.err = NoErr /\ Len(rendered.list) > 0
        /\ applyDir # EmptyStr
        /\ ResourcesFile \in written
        /\ Cardinality({i \in 1..Len(cmds) : IsLiveApply(cmds[i])}) = 1
        /\ IsLiveApply(cmds[Len(cmds)]) /\ cmds[Len(cmds)].args[3] = applyDir

\* C18: a Deploy whose render run returned an empty list without error
\* returns at once no namespaces and no error: that step changes no
\* directory and no file and invokes nothing, the apply directory is never
\* resolved and no `kpt live` command is invoked.
C18_EmptyRenderEndsDeploy ==
    /\ [][(op = "deploy" /\ pc = "rendered" /\ rendered = EmptyRender /\ pc' # pc) =>
            /\ pc' = "returned"
            /\ ret' = [val |-> <<>>, err |-> NoErr]
            /\ UNCHANGED <<fsDirs, fsFiles, written, cmds, applyDir, events>>]_vars
    /\ []((op = "deploy" /\ rendered = EmptyRender) =>
            /\ pc \in {"rendered", "returned"}
            /\ applyDir = EmptyStr
            /\ \A c \in Invoked : ~IsLive(c)
            /\ \A f \in written : ~Under(f, kptHydrated))

C18_Witness ==
    /\ op = "deploy" /\ pc = "returned"
    /\ rendered = EmptyRender
    /\ ret.err = NoErr
    /\ \E c \in Invoked : IsFnRun(c)
    /\ kptHydrated \notin fsDirs

\* C19: when CollectNamespaces fails, Deploy sends an event and goes on to
\* getApplyDir without returning; a Deploy that sent the event ends with
\* `kpt live apply` invoked on the resolved directory (or refused because
\* the context was cancelled), or with an error of getApplyDir; the only
\* errors it returns are those of getApplyDir and of `kpt live apply`.
C19_NamespaceFailureNotFatal ==
    /\ [][(op = "deploy" /\ pc = "rendered" /\ events' # events) =>
            /\ pc' = "applydir"
            /\ ret' = ret
            /\ Len(events') = Len(events) + 1]_vars
    /\ []((op = "deploy" /\ pc = "returned" /\ events # <<>>) =>
            \/ /\ ret.err \in {NoErr, "kpt live apply"}
               /\ applyDir # EmptyStr
               /\ (ret.err = NoErr \/ ctx = "live") =>
                     IsLiveApply(cmds[Len(cmds)]) /\ cmds[Len(cmds)].args[3] = applyDir
            \/ /\ ret.err \in {"getting applyDir", "getting applyDir: creating applyDir",
                                "getting applyDir: kpt live init"}
               /\ \A c \in Invoked : ~IsLiveApply(c))

C19_Witness ==
    /\ op = "deploy" /\ pc = "returned"
    /\ events # <<>>
    /\ ret.err = NoErr
    /\ ResourcesFile \in written
    /\ \E c \in Invoked : IsLiveApply(c)

\* C20 as stated: an operation that returned no error and sent no event met
\* no failure: its render run returned no error and, when it went as far as
\* the apply directory, the manifests were written to resources.yaml.
C20_NoErrorSwallowed ==
    (pc = "returned" /\ ret.err = NoErr /\ events = <<>>) =>
        /\ ~Failed(rendered.err)
        /\ (op = "deploy" /\ applyDir # EmptyStr) => ResourcesFile \in fsFiles

(***************************************************************************)
(* Cancellation of the context handed to Render, Deploy and Cleanup.       *)
(***************************************************************************)
\* the step ends the pipeline or the operation with an error
StepFails ==
    \/ pc' = "rendered" /\ Failed(rendered'.err)
    \/ pc' = "returned" /\ Failed(ret'.err)

\* the steps that always run a command
CommandSteps == {"source", "sink", "apply", "destroy"}

IsKustomizeBuild(c) == c.name = "kustomize" /\ Len(c.args) >= 1 /\ c.args[1] = Str("build")

\* the step of kustomizeBuild
TemplateStep == InRender /\ pc = "template" /\ pc' # pc

\* the files of the working-state subtree
WorkingCopy(files) == {f \in files : Under(f, pipeline)}

\* C28: the Template stage runs `kustomize build` if and only if a
\* kustomization config lies directly under Dir (and the context is not
\* cancelled); when there is none the stage runs no command, leaves the
\* working-state subtree as it is, fails nothing and goes on with the
\* function stage.
C28_TemplateIffKustomization ==
    /\ [][TemplateStep =>
            IF FindKustomizationConfig(fsFiles, k.Dir)
            THEN /\ stages' = Append(stages, "template")
                 /\ ctx = "live" =>
                      /\ Len(cmds') = Len(cmds) + 1
                      /\ IsKustomizeBuild(cmds'[Len(cmds')])
                      /\ cmds'[Len(cmds')].args[Len(cmds'[Len(cmds')].args)] = k.Dir
            ELSE /\ pc' = "fnrun"
                 /\ cmds' = cmds /\ stages' = stages
                 /\ WorkingCopy(fsFiles') = WorkingCopy(fsFiles)
                 /\ fsDirs' = fsDirs
                 /\ rendered' = rendered]_vars
    /\ []((\E c \in Invoked : IsKustomizeBuild(c)) =>
            FindKustomizationConfig(fsFiles, k.Dir))

\* a render of directory . went past the Template stage without a command,
\* although a kustomization config lies in a sub-directory of the project
C28_Witness ==
    /\ InRender /\ pc = "fnrun" /\ Last(stages) = "sink"
    /\ k.Dir = Str(".") /\ KustomizationFile \in fsFiles
    /\ \A c \in Invoked : ~IsKustomizeBuild(c)
    /\ WorkingCopy(fsFiles) # {}

\* the paths in .pipeline of the inputs the kustomization config declares
DryConfigs(files, dir) ==
    {PathJoin(pipeline, DependenciesForKustomization(files, dir)[i]) :
        i \in 1..Len(DependenciesForKustomization(files, dir))}

ApplyDirErrors == {"getting applyDir", "getting applyDir: creating applyDir",
                   "getting applyDir: kpt live init"}

\* the positions of `kpt live destroy` among the commands of the operation
Destroys == {i \in 1..Len(cmds) : IsLiveDestroy(cmds[i])}

\* C21: Cleanup resolves the apply directory, with `kpt live init
\* .kpt-hydrated` only for the default directory, and then runs `kpt live
\* destroy <applyDir>` once, as its last command; when the resolution fails
\* it runs no destroy; it returns nil exactly when the directory was resolved
\* and destroy ran without error, and otherwise the error of the resolution
\* or of destroy.
C21_CleanupResolvesThenDestroys ==
    /\ [](op = "cleanup" =>
            /\ pc \in {"applydir", "destroy", "returned"}
            /\ Cardinality(Destroys) <= 1
            /\ \A i \in 1..Len(cmds) :
                  \/ i = 1 /\ IsLiveInit(cmds[i]) /\ ~ExplicitApplyDir(k)
                           /\ cmds[i].args[3] = kptHydrated
                  \/ i = Len(cmds) /\ IsLiveDestroy(cmds[i]) /\ applyDir # EmptyStr
                                   /\ cmds[i].args = <<Str("live"), Str("destroy"), applyDir>>
            /\ pc = "destroy" => (applyDir # EmptyStr /\ Destroys = {})
            /\ pc = "returned" =>
                  /\ ret.err \in {NoErr, "kpt live destroy"} \cup ApplyDirErrors
                  /\ ret.err = NoErr => Cardinality(Destroys) = 1
                  /\ ret.err \in ApplyDirErrors => (Destroys = {} /\ applyDir = EmptyStr)
                  /\ ret.err = "kpt live destroy" =>
                        (applyDir # EmptyStr /\ (ctx = "live" => Cardinality(Destroys) = 1)))
    /\ [][(op = "cleanup" /\ pc = "applydir" /\ pc' # pc) =>
            IF applyDir' = EmptyStr
            THEN pc' = "returned" /\ ret'.err \in ApplyDirErrors
            ELSE pc' = "destroy"]_vars
    /\ [][(op = "cleanup" /\ pc = "destroy" /\ pc' # pc) =>
            /\ pc' = "returned"
            /\ ret'.err \in {NoErr, "kpt live destroy"}]_vars

\* a Cleanup with the default apply directory ran `kpt live init` and then
\* `kpt live destroy .kpt-hydrated`, and returned nil
C21_Witness ==
    /\ op = "cleanup" /\ pc = "returned" /\ ret.err = NoErr
    /\ Len(cmds) = 2 /\ IsLiveInit(cmds[1]) /\ IsLiveDestroy(cmds[2])
    /\ applyDir = kptHydrated

(***************************************************************************)
(* Dependencies.                                                           *)
(***************************************************************************)
\* Dependencies returned a list
Depended == op = "dependencies" /\ pc = "returned" /\ ret.err = NoErr

\* the paths Dependencies returned
Returned == {ret.val[i] : i \in 1..Len(ret.val)}

\* C26: Dependencies returns no path inside the apply directory, be it the
\* directory the user specified or .kpt-hydrated, whatever Dir is and
\* whatever Deploy, Cleanup and Render wrote before.
C26_ApplyDirNotWatched ==
    Depended =>
        \A p \in Returned :
            /\ ~Under(p, kptHydrated)
            /\ ExplicitApplyDir(k) => ~Under(p, k.Live.Apply.Dir)

\* the step of a call of Dependencies
DependenciesStep == pc \in {"idle", "returned"} /\ op' = "dependencies" /\ pc' = "returned"

\* the paths the call returns
Returned1 == {ret'.val[i] : i \in 1..Len(ret'.val)}

\* the base names of the model's files that end in .yaml or .yml
YamlNames == {"foo.yaml", "bar.yml", "config.yaml", "kustomization.yaml", "m1.yaml",
              "deployment.yaml", "deep.yml", "kpt-func.yaml", "hydrated.yaml",
              "inventory-template.yaml", "resources.yaml", "m2.yaml"}

\* the last symbol of a path
NameOf(p) == p[Len(p)]

\* the files under Dir that have such a name
Resources == {f \in fsFiles : Under(f, k.Dir) /\ NameOf(f) \in YamlNames}

\* what the other two sources report: the function path and the inputs of
\* the kustomization config
OtherDeps ==
    (IF Len(k.Fn.FnPath) > 0 THEN {k.Fn.FnPath} ELSE {})
        \cup {DependenciesForKustomization(fsFiles, k.Dir)[i] :
                i \in 1..Len(DependenciesForKustomization(fsFiles, k.Dir))}

\* C22: the scan of Dir reports every file, at any depth, whose base name
\* ends in .yaml or .yml, and nothing else: no file with another name
\* (README.md, FOO.YAML) and no directory, whatever its name.
C22_ScanReturnsYamlFiles ==
    [][(DependenciesStep /\ ret'.err = NoErr) =>
         /\ Resources \subseteq Returned1
         /\ Returned1 \ OtherDeps \subseteq Resources
         /\ \A p \in Returned1 \ OtherDeps : p \notin fsDirs]_vars

\* Dependencies of the project returned foo.yaml, bar.yml and the file two
\* levels down, and neither README.md nor FOO.YAML nor the directory
\* config/dir.yaml, which are all there
C22_Witness ==
    /\ Depended /\ k.Dir = Str(".") /\ k.Fn.FnPath = EmptyStr
    /\ {Str("README.md"), Str("FOO.YAML")} \subseteq fsFiles
    /\ PathJoin(Str("config"), Str("dir.yaml")) \in fsDirs
    /\ Returned = {Str("bar.yml"), Str("foo.yaml"),
                   PathJoin(PathJoin(Str("config"), Str("sub")), Str("deep.yml"))}

\* C23: Dependencies returns an error when Dir does not exist; when Dir
\* exists, holds no resource file and no kustomization config, and no
\* function path is set, it returns the empty list and no error.
C23_MissingDirIsAnError ==
    [][DependenciesStep =>
         /\ (Clean(k.Dir) \notin fsDirs \cup fsFiles) <=> ret'.err = "finding dependencies"
         /\ (Clean(k.Dir) \in fsDirs /\ Resources = {} /\ OtherDeps = {}) =>
               ret' = [val |-> <<>>, err |-> NoErr]]_vars

\* Dependencies of the existing directory config, which holds nothing but
\* two directories (one of them named dir.yaml) while the project has files
\* elsewhere, returned the empty list without an error
C23_Witness ==
    /\ op = "dependencies" /\ pc = "returned"
    /\ k.Dir = Str("config") /\ k.Fn.FnPath = EmptyStr
    /\ fsFiles # {} /\ Resources = {}
    /\ ret = [val |-> <<>>, err |-> NoErr]

C25_FnPathDirectoryScanned ==
    [][(DependenciesStep /\ ret'.err = NoErr /\ Clean(k.Fn.FnPath) \in fsDirs
          /\ Len(k.Fn.FnPath) > 0) =>
         /\ k.Fn.FnPath \notin Returned1
         /\ \A f \in fsFiles :
               (Under(f, k.Fn.FnPath) /\ NameOf(f) \in YamlNames) => f \in Returned1]_vars

\* C27: every call returns what the filesystem of that moment determines,
\* whatever an earlier call returned: a resource file under Dir is in the
\* list exactly when it exists at the call.
C27_RecomputedOnEveryCall ==
    [][DependenciesStep =>
         /\ ret' = Dependencies(k, fsDirs, fsFiles, ret'.err # "finding kustomization")
         /\ ret'.err = NoErr =>
               \A f \in DepFiles \ OtherDeps :
                  (f \in Returned1) <=> (f \in Resources)]_vars

\* a call returned a resource file that was created after an earlier call
\* had returned
C27_Witness ==
    /\ Depended /\ argIn.fn = "Dependencies"
    /\ argIn.last \in Returned \ OtherDeps
    /\ Returned = Resources \cup OtherDeps

(***************************************************************************)
(* The end of the pipeline: image substitution and label injection.        *)
(***************************************************************************)
\* renderManifests returned a list that is not empty
RenderedSome == pc = "rendered" /\ rendered.err = NoErr /\ Len(rendered.list) > 0

\* the operation is past a successful render and no other one has begun
AfterRender ==
    \/ pc = "rendered"
    \/ op = "deploy" /\ pc \in {"applydir", "output", "apply"}

HasLabels(d, labels) ==
    \A key \in DOMAIN labels : key \in DOMAIN d.labels /\ d.labels[key] = labels[key]

\* C31: label injection is the final stage of a render run with non-empty
\* output.  The list renderManifests returns is SetLabels applied to the list
\* the last transform returned; every document of it carries every label the
\* deployer was built with; labels is the last stage entered; and nothing
\* changes the list afterwards: Render returns it as it is, and Deploy keeps
\* it until the operation ends.
C31_LabelsAreTheFinalStage ==
    /\ [](RenderedSome =>
            /\ Last(stages) = "labels"
            /\ rendered.list = manifests
            /\ \A i \in 1..Len(rendered.list) : HasLabels(rendered.list[i], k.labels))
    /\ [][/\ (pc = "labels" /\ rendered'.err = NoErr) =>
                rendered'.list = SetLabels(manifests, k.labels)
          /\ (AfterRender /\ op' = op /\ run' = run) =>
                rendered' = rendered /\ stages' = stages /\ k' = k
          /\ (op = "render" /\ pc = "rendered" /\ pc' = "returned" /\ ret'.err = NoErr) =>
                ret'.val = rendered.list]_vars

C31_Witness ==
    /\ op = "render" /\ pc = "returned" /\ ret.err = NoErr
    /\ Len(ret.val) = 2
    /\ DOMAIN k.labels # {}
    /\ \A i \in 1..Len(ret.val) : HasLabels(ret.val[i], k.labels)
    /\ Last(stages) = "labels"

\* the tag of the build result named like image reference img, img itself
\* when no build result is
Resolved(img, bs) ==
    IF \E j \in 1..Len(bs) : bs[j].ImageName = img
    THEN bs[CHOOSE j \in 1..Len(bs) : bs[j].ImageName = img].Tag
    ELSE img

FlagOf(name, v) == IF Len(v) > 0 THEN <<Str(name), v>> ELSE <<>>

\* the flags of the options o in the order of the command's synopsis
LiveApplyFlags(o) ==
    FlagOf("--poll-period", o.PollPeriod)
        \o FlagOf("--prune-propagation-policy", o.PrunePropagationPolicy)
        \o FlagOf("--prune-timeout", o.PruneTimeout)
        \o FlagOf("--reconcile-timeout", o.ReconcileTimeout)

LiveApplied == argOut.done /\ argIn.fn = "getKptLiveApplyArgs"

\* C33: getKptLiveApplyArgs returns, in the order --poll-period,
\* --prune-propagation-policy, --prune-timeout, --reconcile-timeout, the flag
\* and the value of every option that is a non-empty string and nothing for
\* the others; the value is the configured string whatever it is.  The command
\* is `live apply <applyDir>` followed by these flags, and `live apply
\* <applyDir>` alone when no option is set.
C33_LiveApplyFlags ==
    LiveApplied =>
        /\ argOut.args = LiveApplyFlags(argIn.Options)
        /\ Join(argOut.line, SP)
             = Join(<<Str("live"), Str("apply"), argIn.dir>> \o argOut.args, SP)
        /\ argOut.args = <<>> => argOut.line = <<Str("live"), Str("apply"), argIn.dir>>
        /\ argOut.args = <<>> <=> (\A f \in DOMAIN argIn.Options : argIn.Options[f] = EmptyStr)

C33_Witness ==
    /\ LiveApplied
    /\ argIn.Options.PollPeriod = Str("foo")
    /\ argIn.Options.PrunePropagationPolicy = EmptyStr
    /\ argIn.Options.PruneTimeout # EmptyStr
    /\ argIn.Options.ReconcileTimeout # EmptyStr
    /\ argOut.line = <<Str("live"), Str("apply"), argIn.dir, Str("--poll-period"), Str("foo"),
                       Str("--prune-timeout"), Str("10s"),
                       Str("--reconcile-timeout"), Str("1m")>>

(***************************************************************************)
(* The order of the commands of a render run.                              *)
(***************************************************************************)
IsFnSource(c) == IsKpt(c, "fn", "source")
IsFnSink(c) == IsKpt(c, "fn", "sink")

\* the place of a command in the order source, kustomize build, fn run, sink
StepOf(c) ==
    CASE IsFnSource(c) -> 1
      [] IsKustomizeBuild(c) -> 2
      [] IsFnRun(c) -> 3
      [] IsFnSink(c) -> 4
      [] OTHER -> 5

\* C34: a render run invokes `kpt fn source`, then `kustomize build`, then
\* `kpt fn run`, then `kpt fn sink`, and stores no data between the steps:
\* no file is written before `kpt fn run` has run.
C34_SourceBuildRunSink ==
    InRender =>
        /\ \A i \in 1..Len(cmds), j \in 1..Len(cmds) :
             i < j => StepOf(cmds[i]) < StepOf(cmds[j])
        /\ written # {} => \E c \in Invoked : IsFnRun(c)

(***************************************************************************)
(* Source and sink.                                                        *)
(***************************************************************************)
SourceFailed == "reading config manifests: kpt fn source"
SinkFailed == "reading config manifests: kpt fn sink"

\* the sink command of the deployer's working-state subtree
SinkCommand(cfg) ==
    Command("kpt", <<Str("fn"), Str("sink"), PathJoin(pipeline, cfg.Dir)>>)

C37_PipelineNotWatched ==
    Depended => \A p \in Returned : ~Under(p, pipeline)

(***************************************************************************)
(* What a render run touches.                                              *)
(***************************************************************************)
\* the entries of S that are not inside the .pipeline tree
Outside(S) == {p \in S : ~Under(p, pipeline)}

\* the operation is inside renderManifests
Rendering ==
    InRender /\ pc \in {"registry", "reset", "source", "sink", "template", "fnrun",
                        "filter", "images", "transforms", "labels"}

\* C36: no step of a render run creates, deletes or replaces a file or a
\* directory outside the .pipeline tree, whatever Dir is.
C36_OnlyPipelineTouched ==
    [][Rendering =>
          /\ Outside(fsFiles') = Outside(fsFiles)
          /\ Outside(fsDirs') = Outside(fsDirs)]_vars

(***************************************************************************)
(* A failed initialization of the default apply directory.                 *)
(***************************************************************************)
\* getApplyDir is about to run with no explicit apply directory
DefaultApplyDirStep ==
    op \in {"deploy", "cleanup"} /\ pc = "applydir" /\ ~ExplicitApplyDir(k)

InitFailed == "getting applyDir: kpt live init"

\* C39 as stated: once a failed `kpt live init` has left .kpt-hydrated
\* without the marker file, every Deploy and Cleanup invokes `kpt live init`
\* again as long as the marker file is absent (and its context is not
\* cancelled).
C39_EveryLaterCallInitializes ==
    (/\ op \in {"deploy", "cleanup"} /\ pc = "returned" /\ ctx = "live"
     /\ ~ExplicitApplyDir(k)
     /\ kptHydrated \in fsDirs
     /\ InventoryMarker \notin fsFiles) =>
        \E c \in Invoked : IsLiveInit(c)

\* C39, amended: with no explicit apply directory, a getApplyDir whose `kpt live init`
\* fails returns an error and leaves .kpt-hydrated in place without the
\* marker file.  As long as the marker file is absent, every getApplyDir that
\* gets to the marker check with a context that is not cancelled invokes
\* `kpt live init .kpt-hydrated`, and it resolves the directory only when
\* that command succeeded: the directory is never handed to `kpt live apply`
\* or `kpt live destroy` without its marker file.
C39_FailedInitIsRetried ==
    /\ [][(DefaultApplyDirStep /\ pc' # pc) =>
            /\ ret'.err = InitFailed =>
                 /\ pc' = "returned"
                 /\ kptHydrated \in fsDirs'
                 /\ InventoryMarker \notin fsFiles'
                 /\ applyDir' = EmptyStr
            /\ (InventoryMarker \notin fsFiles /\ ctx = "live"
                  /\ ret'.err # "getting applyDir: creating applyDir") =>
                 /\ cmds' = Append(cmds, Command("kpt", <<Str("live"), Str("init"),
                                                           kptHydrated>>))
                 /\ (InventoryMarker \in fsFiles') <=> (ret'.err # InitFailed)
            /\ pc' \in {"output", "destroy"} =>
                 /\ applyDir' = kptHydrated
                 /\ InventoryMarker \in fsFiles']_vars
    /\ []((applyDir = kptHydrated /\ ~ExplicitApplyDir(k)) => InventoryMarker \in fsFiles)

\* C39 witness: a call whose `kpt live init` failed has left .kpt-hydrated
\* without its marker file, and the next call is at getApplyDir
C39_Witness ==
    /\ run = 2 /\ DefaultApplyDirStep /\ ctx = "live"
    /\ kptHydrated \in fsDirs
    /\ InventoryMarker \notin fsFiles

(***************************************************************************)
(* The function-annotation filter: what it returns.                        *)
(***************************************************************************)
FilterReturned == argIn.fn = "ExcludeKptFn" /\ argOut.done

\* C40: ExcludeKptFn succeeds exactly when every document it received can be
\* unmarshalled; it then returns as many documents as it received, the i-th
\* one being the i-th input resource but for its annotations and bytes.  When
\* a document cannot be unmarshalled it returns the error and no document,
\* whatever it had processed before.
C40_CountOrderOrNothing ==
    FilterReturned =>
        IF \E i \in 1..Len(argIn.manifest) : argIn.manifest[i].bad
        THEN /\ argOut.once.err = "unmarshaling config"
             /\ argOut.once.list = <<>>
        ELSE /\ argOut.once.err = NoErr
             /\ Len(argOut.once.list) = Len(argIn.manifest)
             /\ \A i \in 1..Len(argIn.manifest) :
                   SameButAnns(argIn.manifest[i], argOut.once.list[i])

C40_Witness ==
    /\ FilterReturned
    /\ Len(argIn.manifest) = 3
    /\ argIn.manifest[1] = fnDoc
    /\ argIn.manifest[2] = pod
    /\ argIn.manifest[3] = badDoc
    /\ argOut.once.err = "unmarshaling config"

(***************************************************************************)
(* Render runs that are not serialized.                                    *)
(***************************************************************************)
\* run r went from its call to the end of its `kpt fn run` with no step of
\* the other run in between, and the other run was not under way meanwhile
Serialized(r) ==
    /\ renders[r].alone
    /\ renders[r].pc = "done"

\* C38: a render run that the caller serialized with the other one (no step
\* of the other run fell between its call and its return) had its
\* `kpt fn run` read exactly the files its own sink and template stages left
\* in the working-state tree, whether it ran first or second.
C38_SerializedRunsReadOwnWrites ==
    \A r \in RenderIds : Serialized(r) => renders[r].fnSaw = renders[r].wrote

\* a run sank two documents, the other run then reset the tree, and the
\* first run's `kpt fn run` read a tree without the documents it had written
C38_Witness ==
    \E r \in RenderIds :
        /\ renders[r].pc = "done"
        /\ renders[r].disturbed
        /\ renders[r].wrote # {}
        /\ renders[r].fnSaw # renders[r].wrote
        /\ \E o \in RenderIds \ {r} : renders[o].pc \in {"source", "sink"}

====
